---- MODULE Spec2Model ----
(***************************************************************************)
(* pylrcget: LRC codec, synced-lyrics edit model, library store, scan     *)
(* pipeline and main window, modelled from the Python sources.             *)
(*                                                                         *)
(* Text is a sequence of one-character strings (<<"a","b">> for "ab"), so  *)
(* that strip(), split(), the regular expressions and int() are computed   *)
(* character by character as the code does.  Python's None and SQL's NULL  *)
(* are the one-element sequence NULL, which no text equals.                *)
(***************************************************************************)
EXTENDS Integers, Sequences, FiniteSets, TLC

VARIABLES
    \* ---- codec harness (pure functions applied to drawn inputs)
    pairs,              \* the (time_ms, text) pairs handed to serialize
    lrc_out,            \* serialize(pairs), NULL before it ran
    parsed,             \* parse_lrc(lrc_out)
    codec_pc,           \* "input" | "serialized" | "parsed"
    \* ---- time cell codec harness (ms_to_tag, tag_to_ms)
    stamp_in,           \* the time handed to ms_to_tag
    stamp_tag,          \* the tag text: ms_to_tag(stamp_in) or a typed text
    stamp_out,          \* tag_to_ms(stamp_tag)
    stamp_pc,           \* "idle" | "ms" -> "formatted" -> "round_trip" | "typed" -> "parsed"
    \* ---- search key harness (core/utils.py prepare_input)
    norm_in,            \* the string handed to prepare_input
    norm_once,          \* prepare_input(norm_in)
    norm_twice,         \* prepare_input(norm_once)
    norm_pc,            \* "idle" | "input" -> "once" -> "twice"
    \* ---- function harness (scan_library.py new_fs_track_from_path,
    \* ---- lyrics_view.py parse_lrc and _strip_timestamps)
    fn_in,              \* the argument: [kind, arg], and the lines of a text
    fn_out,             \* the value returned for fn_in.arg
    fn_pc,              \* "idle" | "input" -> "extracted" | "stripped" | "parsed"
    \* ---- LyricsView (ui/lyrics_view.py)
    rows,               \* the QTreeWidget's top-level items: [ms, tag, text]
    times,              \* self._times
    dirty,              \* self._dirty
    current_index,      \* self._current_index
    cur,                \* self.synced.currentItem() as a row index, 0 = none
    mode,               \* self.stack.currentWidget(): "msg" | "plain" | "synced"
    edit_enabled,       \* the edit buttons' enabled state
    last_loaded_lrc,    \* self._last_loaded_lrc
    last_loaded_txt,    \* self._last_loaded_txt
    position,           \* the player's position: <<>> (no track) or <<ms>>
    nops,               \* number of UI events handled since the view was built
    last,               \* history: the last handled event and the state before it
    window,             \* MainWindow: player.track, the lyrics download worker, and
                        \* (history) the track the editor was last loaded from
    \* ---- library store (db/database.py, db/queries.py) and its callers
    tracks,             \* table tracks, in rowid order
    artists,            \* table artists, in rowid order
    albums,             \* table albums, in rowid order
    dblast,             \* history: the last store operation and the ids it was given
    directories,        \* table directories: the paths, in rowid order
    library_init,       \* library_data.init
    user_version,       \* PRAGMA user_version
    applied,            \* the "Migrate database version k..." lines printed, as the k's
    opens,              \* number of initialize_database calls on this file
    schema,             \* the migration steps whose statements have all run on the file
    \* ---- the scan trigger (ui/main_window.py) and LibraryScanner.run
    \* ---- (ui/workers/library_scanner.py)
    btn_refresh,        \* MainWindow.btn_refresh.isEnabled()
    in_flight,          \* scanners started whose finished signal was not handled yet
    handled,            \* finished signals of the current scanner _scan_finished handled
    paths,              \* paths = iter_audio_paths(self.directories), as path numbers
    fs,                 \* per entry of paths: what extraction of the file does
    scan_pc,            \* "idle" | "started" | "extracting" | "done" | "failed"
    scan_i,             \* index of the next path of the walk
    batch,              \* the batch list
    scanned,            \* the scanned counter
    progress,           \* the progress_signal emissions, in order
    finished,           \* the finished_signal emissions, in order
    \* ---- the thread-pool loader (library/fs_track.py)
    futures             \* entries of the submitted batch as_completed did not yield yet

stamp_vars == <<stamp_in, stamp_tag, stamp_out, stamp_pc>>
norm_vars == <<norm_in, norm_once, norm_twice, norm_pc>>
fn_vars == <<fn_in, fn_out, fn_pc>>
codec_vars == <<pairs, lrc_out, parsed, codec_pc, stamp_vars, norm_vars, fn_vars>>
view_vars == <<rows, times, dirty, current_index, cur, mode, edit_enabled,
               last_loaded_lrc, last_loaded_txt, position, nops, last, window>>
schema_vars == <<directories, library_init, user_version, applied, opens, schema>>
store_vars == <<tracks, artists, albums, dblast, schema_vars>>
trigger_vars == <<btn_refresh, in_flight, handled>>
scan_vars == <<trigger_vars, futures, paths, fs, scan_pc, scan_i, batch, scanned, progress, finished>>
vars == <<codec_vars, view_vars, store_vars, scan_vars>>

(***************************************************************************)
(* Text helpers: Python str methods on character sequences.                *)
(***************************************************************************)
NULL == <<"NULL">>

Digits == {"0", "1", "2", "3", "4", "5", "6", "7", "8", "9"}
Whitespace == {" ", "\n", "\t", "\r"}
LineBreaks == {"\n", "\r"}

DigitVal(c) ==
    CASE c = "0" -> 0 [] c = "1" -> 1 [] c = "2" -> 2 [] c = "3" -> 3
      [] c = "4" -> 4 [] c = "5" -> 5 [] c = "6" -> 6 [] c = "7" -> 7
      [] c = "8" -> 8 [] c = "9" -> 9

DigitChar(d) ==
    CASE d = 0 -> "0" [] d = 1 -> "1" [] d = 2 -> "2" [] d = 3 -> "3"
      [] d = 4 -> "4" [] d = 5 -> "5" [] d = 6 -> "6" [] d = 7 -> "7"
      [] d = 8 -> "8" [] d = 9 -> "9"

Max(a, b) == IF a >= b THEN a ELSE b
Min(a, b) == IF a <= b THEN a ELSE b

\* s[i:] and s[:n] of Python (1-based i here)
Drop(s, n) == SubSeq(s, n + 1, Len(s))
Take(s, n) == SubSeq(s, 1, Min(n, Len(s)))

RECURSIVE LStrip(_)
LStrip(s) == IF s # <<>> /\ Head(s) \in Whitespace THEN LStrip(Tail(s)) ELSE s

RECURSIVE RStrip(_)
RStrip(s) ==
    IF s # <<>> /\ s[Len(s)] \in Whitespace THEN RStrip(SubSeq(s, 1, Len(s) - 1)) ELSE s

Strip(s) == LStrip(RStrip(s))

StartsWith(s, p) == Len(s) >= Len(p) /\ SubSeq(s, 1, Len(p)) = p

\* index of the first c in s, 0 when absent
IndexOf(s, c) ==
    IF \E i \in 1..Len(s) : s[i] = c
    THEN CHOOSE i \in 1..Len(s) : s[i] = c /\ \A j \in 1..(i - 1) : s[j] # c
    ELSE 0

\* str.splitlines(): the pieces between line breaks, no trailing empty piece
RECURSIVE SplitLines(_)
SplitLines(s) ==
    IF s = <<>> THEN <<>>
    ELSE LET brk == IF \E i \in 1..Len(s) : s[i] \in LineBreaks
                    THEN CHOOSE i \in 1..Len(s) :
                            s[i] \in LineBreaks /\ \A j \in 1..(i - 1) : s[j] \notin LineBreaks
                    ELSE 0
         IN  IF brk = 0 THEN <<s>>
             ELSE LET crlf == s[brk] = "\r" /\ brk < Len(s) /\ s[brk + 1] = "\n"
                  IN  <<SubSeq(s, 1, brk - 1)>> \o SplitLines(Drop(s, IF crlf THEN brk + 1 ELSE brk))

\* "\n".join(lines)
RECURSIVE JoinLines(_)
JoinLines(ls) ==
    IF ls = <<>> THEN <<>>
    ELSE IF Len(ls) = 1 THEN ls[1]
    ELSE ls[1] \o <<"\n">> \o JoinLines(Tail(ls))

\* number of consecutive digits of s from index i on
RECURSIVE DigitRun(_, _)
DigitRun(s, i) == IF i <= Len(s) /\ s[i] \in Digits THEN 1 + DigitRun(s, i + 1) ELSE 0

\* int() of a non-empty string of digits
RECURSIVE DigitsToInt(_)
DigitsToInt(s) ==
    IF s = <<>> THEN 0
    ELSE DigitsToInt(SubSeq(s, 1, Len(s) - 1)) * 10 + DigitVal(s[Len(s)])

\* the decimal digits of n >= 0
RECURSIVE IntToDigits(_)
IntToDigits(n) ==
    IF n < 10 THEN <<DigitChar(n)>> ELSE IntToDigits(n \div 10) \o <<DigitChar(n % 10)>>

\* f"{n:02d}" for n >= 0
Pad2(n) == IF n < 10 THEN <<"0", DigitChar(n)>> ELSE IntToDigits(n)

\* Python int(s): surrounding whitespace is ignored, one sign is allowed, single
\* underscores may separate digits; anything else raises ValueError (ok = FALSE)
RECURSIVE DropUnderscores(_)
DropUnderscores(s) ==
    IF s = <<>> THEN <<>>
    ELSE IF Head(s) = "_" THEN DropUnderscores(Tail(s))
    ELSE <<Head(s)>> \o DropUnderscores(Tail(s))

PyInt(s) ==
    LET t    == Strip(s)
        neg  == t # <<>> /\ Head(t) = "-"
        sgn  == t # <<>> /\ Head(t) \in {"-", "+"}
        body == IF sgn THEN Tail(t) ELSE t
        wellFormed ==
            /\ body # <<>>
            /\ \A i \in 1..Len(body) : body[i] \in Digits \cup {"_"}
            /\ body[1] \in Digits /\ body[Len(body)] \in Digits
            /\ \A i \in 1..(Len(body) - 1) : ~(body[i] = "_" /\ body[i + 1] = "_")
    IN  IF wellFormed
        THEN [ok |-> TRUE,
              v  |-> (IF neg THEN -1 ELSE 1) * DigitsToInt(DropUnderscores(body))]
        ELSE [ok |-> FALSE, v |-> 0]

(***************************************************************************)
(* LRC codec (ui/lyrics_view.py).                                          *)
(***************************************************************************)
\* _ts_to_ms(mm, ss, frac): mm, ss are the regex's digit groups, frac the
\* optional third group (NULL when the group did not take part)
ts_to_ms(mm, ss, frac) ==
    LET m  == DigitsToInt(mm)
        s  == DigitsToInt(ss)
        ms == IF frac = NULL THEN 0
              ELSE IF Len(frac) = 1 THEN DigitsToInt(frac) * 100
              ELSE IF Len(frac) = 2 THEN DigitsToInt(frac) * 10
              ELSE DigitsToInt(Take(frac, 3))
    IN  (m * 60 + s) * 1000 + ms

\* ms_to_tag with the seconds field left as the total of seconds (no "% 60")
ms_to_tag_total_seconds(ms) ==
    LET ms0     == Max(0, ms)
        total_s == ms0 \div 1000
        m       == total_s \div 60
        cs      == (ms0 % 1000) \div 10
    IN  Pad2(m) \o <<":">> \o Pad2(total_s) \o <<".">> \o Pad2(cs)

\* ms_to_tag that rounds to the nearest centisecond instead of flooring
ms_to_tag_rounds(ms) ==
    LET ms0     == Max(0, ms)
        total_s == ms0 \div 1000
        m       == total_s \div 60
        s       == total_s % 60
        cs      == ((ms0 % 1000) + 5) \div 10
    IN  Pad2(m) \o <<":">> \o Pad2(s) \o <<".">> \o Pad2(cs)

\* ms_to_tag(ms) -> "mm:ss.cc"
ms_to_tag(ms) ==
    LET ms0     == Max(0, ms)
        total_s == ms0 \div 1000
        m       == total_s \div 60
        s       == total_s % 60
        cs      == (ms0 % 1000) \div 10
    IN  Pad2(m) \o <<":">> \o Pad2(s) \o <<".">> \o Pad2(cs)

\* tag_to_ms that takes a comma for the decimal point
tag_to_ms_comma(tag) ==
    LET t0    == Strip(tag)
        t     == [k \in 1..Len(t0) |-> IF t0[k] = "," THEN "." ELSE t0[k]]
        dot   == IndexOf(t, ".")
        left  == IF dot > 0 THEN SubSeq(t, 1, dot - 1) ELSE t
        frac  == IF dot > 0 THEN Drop(t, dot) ELSE <<"0", "0">>
        colon == IndexOf(left, ":")
        m     == PyInt(SubSeq(left, 1, colon - 1))
        s     == PyInt(Drop(left, colon))
        cs    == PyInt(Take(frac \o <<"0", "0">>, 2))
    IN  IF t = <<>> THEN [ok |-> FALSE, v |-> 0]
        ELSE IF colon = 0 THEN [ok |-> FALSE, v |-> 0]
        ELSE IF ~m.ok \/ ~s.ok \/ ~cs.ok THEN [ok |-> FALSE, v |-> 0]
        ELSE [ok |-> TRUE, v |-> (m.v * 60 + s.v) * 1000 + cs.v * 10]

\* tag_to_ms(tag) -> [ok, v]; ok = FALSE is the None the except branch returns
tag_to_ms(tag) ==
    LET t     == Strip(tag)
        dot   == IndexOf(t, ".")
        left  == IF dot > 0 THEN SubSeq(t, 1, dot - 1) ELSE t
        frac  == IF dot > 0 THEN Drop(t, dot) ELSE <<"0", "0">>
        colon == IndexOf(left, ":")
        m     == PyInt(SubSeq(left, 1, colon - 1))
        s     == PyInt(Drop(left, colon))
        cs    == PyInt(Take(frac \o <<"0", "0">>, 2))
    IN  IF t = <<>> THEN [ok |-> FALSE, v |-> 0]
        ELSE IF colon = 0 THEN [ok |-> FALSE, v |-> 0]
        ELSE IF ~m.ok \/ ~s.ok \/ ~cs.ok THEN [ok |-> FALSE, v |-> 0]
        ELSE [ok |-> TRUE, v |-> (m.v * 60 + s.v) * 1000 + cs.v * 10]

\* _TS_RE = \[(\d+):(\d+)(?:\.(\d+))?\]  matched at index i of s:
\* [len, mm, ss, frac], len = 0 when the pattern does not match there
NoMatch == [len |-> 0, mm |-> <<>>, ss |-> <<>>, frac |-> NULL]

TsMatchAt(s, i) ==
    IF ~(i <= Len(s) /\ s[i] = "[") THEN NoMatch
    ELSE LET n1 == DigitRun(s, i + 1)
             c  == i + 1 + n1
         IN  IF n1 = 0 \/ ~(c <= Len(s) /\ s[c] = ":") THEN NoMatch
             ELSE LET n2 == DigitRun(s, c + 1)
                      j  == c + 1 + n2
                      n3 == IF j <= Len(s) /\ s[j] = "." THEN DigitRun(s, j + 1) ELSE 0
                      k  == j + 1 + n3
                  IN  IF n2 = 0 THEN NoMatch
                      ELSE IF n3 > 0 /\ k <= Len(s) /\ s[k] = "]"
                      THEN [len |-> k - i + 1, mm |-> SubSeq(s, i + 1, i + n1),
                            ss |-> SubSeq(s, c + 1, c + n2), frac |-> SubSeq(s, j + 1, j + n3)]
                      ELSE IF j <= Len(s) /\ s[j] = "]"
                      THEN [len |-> j - i + 1, mm |-> SubSeq(s, i + 1, i + n1),
                            ss |-> SubSeq(s, c + 1, c + n2), frac |-> NULL]
                      ELSE NoMatch

\* _TS_RE.finditer(line): the non-overlapping matches, left to right
RECURSIVE TsFindIter(_, _)
TsFindIter(s, i) ==
    IF i > Len(s) THEN <<>>
    ELSE LET m == TsMatchAt(s, i)
         IN  IF m.len > 0 THEN <<m>> \o TsFindIter(s, i + m.len)
             ELSE TsFindIter(s, i + 1)

\* _TS_RE.sub("", line)
RECURSIVE TsSub(_, _)
TsSub(s, i) ==
    IF i > Len(s) THEN <<>>
    ELSE LET m == TsMatchAt(s, i)
         IN  IF m.len > 0 THEN TsSub(s, i + m.len)
             ELSE <<s[i]>> \o TsSub(s, i + 1)

MetadataPrefixes ==
    { <<"[", "a", "r", ":">>, <<"[", "t", "i", ":">>, <<"[", "a", "l", ":">>,
      <<"[", "b", "y", ":">>, <<"[", "o", "f", "f", "s", "e", "t", ":">>,
      <<"[", "a", "u", ":">> }

\* the pairs one raw line contributes to parse_lrc's out list
LinePairs(raw_line) ==
    LET line    == Strip(raw_line)
        matches == TsFindIter(line, 1)
        text    == Strip(TsSub(line, 1))
    IN  IF line = <<>> THEN <<>>
        ELSE IF \E p \in MetadataPrefixes : StartsWith(line, p) THEN <<>>
        ELSE IF matches = <<>> THEN <<>>
        ELSE IF text = <<>> THEN <<>>
        ELSE [k \in 1..Len(matches) |->
                [ms |-> ts_to_ms(matches[k].mm, matches[k].ss, matches[k].frac),
                 text |-> text]]

RECURSIVE AllLinePairs(_)
AllLinePairs(ls) == IF ls = <<>> THEN <<>> ELSE LinePairs(Head(ls)) \o AllLinePairs(Tail(ls))

\* an ascending sort that puts a pair before the pairs of the same time
RECURSIVE SortByMs_ties_reversed(_)
SortByMs_ties_reversed(ps) ==
    IF ps = <<>> THEN <<>>
    ELSE LET init == SortByMs_ties_reversed(SubSeq(ps, 1, Len(ps) - 1))
             x    == ps[Len(ps)]
             n    == Cardinality({i \in 1..Len(init) : init[i].ms < x.ms})
         IN  SubSeq(init, 1, n) \o <<x>> \o Drop(init, n)

\* list.sort(key=lambda x: x[0]): stable, ascending by time
RECURSIVE StableSortByMs(_)
StableSortByMs(ps) ==
    IF ps = <<>> THEN <<>>
    ELSE LET init == StableSortByMs(SubSeq(ps, 1, Len(ps) - 1))
             x    == ps[Len(ps)]
             n    == Cardinality({i \in 1..Len(init) : init[i].ms <= x.ms})
         IN  SubSeq(init, 1, n) \o <<x>> \o Drop(init, n)

\* parse_lrc(lrc_text): list of [ms, text] sorted by time
parse_lrc(lrc_text) ==
    IF lrc_text = NULL \/ lrc_text = <<>> THEN <<>>
    ELSE StableSortByMs(AllLinePairs(SplitLines(lrc_text)))

\* LyricsView._serialize_lrc_from_tree over items with stored time ms and text
RECURSIVE SerializeLines(_)
SerializeLines(items) ==
    IF items = <<>> THEN <<>>
    ELSE LET it   == Head(items)
             text == RStrip(it.text)
         IN  IF text = <<>> THEN SerializeLines(Tail(items))
             ELSE <<(<<"[">> \o ms_to_tag(it.ms) \o <<"]">> \o text)>>
                  \o SerializeLines(Tail(items))

\* a serialization that writes the rows in ascending time order
serialize_lrc_time_sorted(items) == Strip(JoinLines(SerializeLines(StableSortByMs(items))))

serialize_lrc_from_tree(items) == Strip(JoinLines(SerializeLines(items)))

\* LyricsView._strip_timestamps: drop leading [..] groups of every line
RECURSIVE StripLeadingGroups(_)
StripLeadingGroups(line) ==
    IF line # <<>> /\ Head(line) = "[" /\ IndexOf(line, "]") > 0
    THEN StripLeadingGroups(LStrip(Drop(line, IndexOf(line, "]"))))
    ELSE line

strip_timestamps(lrc) ==
    LET ls == SplitLines(lrc)
    IN  Strip(JoinLines([k \in 1..Len(ls) |-> StripLeadingGroups(ls[k])]))

\* core/embed_lyrics.py _strip_timestamps: the copy that strips each line and skips
\* the lines that are blank before their groups are removed
embed_strip_timestamps(lrc) ==
    LET ls   == SplitLines(lrc)
        kept == SelectSeq([k \in 1..Len(ls) |-> Strip(ls[k])], LAMBDA l : l # <<>>)
    IN  Strip(JoinLines([k \in 1..Len(kept) |-> StripLeadingGroups(kept[k])]))

(***************************************************************************)
(* Synced-lyrics edit model: LyricsView (ui/lyrics_view.py).               *)
(* The view's state is handled as a record V so that a handler that calls  *)
(* another handler is the composition of the two.                          *)
(***************************************************************************)
View ==
    [rows |-> rows, times |-> times, dirty |-> dirty, current_index |-> current_index,
     cur |-> cur, mode |-> mode, edit_enabled |-> edit_enabled,
     last_loaded_lrc |-> last_loaded_lrc, last_loaded_txt |-> last_loaded_txt]

SetView(V) ==
    /\ rows' = V.rows
    /\ times' = V.times
    /\ dirty' = V.dirty
    /\ current_index' = V.current_index
    /\ cur' = V.cur
    /\ mode' = V.mode
    /\ edit_enabled' = V.edit_enabled
    /\ last_loaded_lrc' = V.last_loaded_lrc
    /\ last_loaded_txt' = V.last_loaded_txt

\* a time index kept in ascending order for the bisection
RowTimes_sorted(rs) ==
    LET ps == StableSortByMs(rs) IN [k \in 1..Len(ps) |-> ps[k].ms]

\* [int(item.data(0, UserRole) or 0) for every top-level item]
RowTimes(rs) == [k \in 1..Len(rs) |-> rs[k].ms]

\* LyricsView._reset_synced
reset_synced(V) ==
    [V EXCEPT !.times = <<>>, !.current_index = -1, !.rows = <<>>, !.cur = 0]

\* LyricsView.show_none
show_none(V) ==
    [reset_synced(V) EXCEPT !.mode = "msg", !.edit_enabled = FALSE, !.dirty = FALSE,
                            !.last_loaded_lrc = <<>>, !.last_loaded_txt = <<>>]

\* LyricsView._set_message
set_message(V) == [reset_synced(V) EXCEPT !.mode = "msg"]

\* LyricsView._set_plain
set_plain(V, txt) ==
    [reset_synced(V) EXCEPT !.mode = "plain", !.edit_enabled = FALSE, !.dirty = FALSE,
                            !.last_loaded_lrc = <<>>, !.last_loaded_txt = Strip(txt)]

\* LyricsView._set_synced_from_pairs
set_synced_from_pairs(V, ps) ==
    LET rs  == [k \in 1..Len(ps) |->
                  [ms |-> ps[k].ms, tag |-> ms_to_tag(ps[k].ms), text |-> ps[k].text]]
        lrc == serialize_lrc_from_tree(rs)
    IN  [reset_synced(V) EXCEPT
            !.rows = rs, !.times = RowTimes(rs), !.mode = "synced",
            !.edit_enabled = TRUE, !.last_loaded_lrc = lrc,
            !.last_loaded_txt = IF lrc # <<>> THEN strip_timestamps(lrc) ELSE <<>>,
            !.dirty = FALSE]

\* LyricsView.set_track_lyrics(title, txt_lyrics, lrc_lyrics, instrumental)
set_track_lyrics(V, txt_lyrics, lrc_lyrics, instrumental) ==
    LET lrc == IF lrc_lyrics = NULL THEN <<>> ELSE Strip(lrc_lyrics)
        txt == IF txt_lyrics = NULL THEN <<>> ELSE Strip(txt_lyrics)
        ps  == parse_lrc(lrc)
    IN  IF instrumental THEN show_none(V)
        ELSE IF lrc # <<>> /\ ps # <<>> THEN set_synced_from_pairs(V, ps)
        ELSE IF txt # <<>> THEN set_plain(V, txt)
        ELSE show_none(V)

\* bisect.bisect_right(a, x): the binary search, also on a list that is not sorted
RECURSIVE BisectLoop(_, _, _, _)
BisectLoop(a, x, lo, hi) ==
    IF lo < hi
    THEN LET mid == (lo + hi) \div 2
         IN  IF x < a[mid + 1] THEN BisectLoop(a, x, lo, mid)
             ELSE BisectLoop(a, x, mid + 1, hi)
    ELSE lo

\* bisect.bisect_left(a, x) on a sorted list: the insertion point before equal entries
bisect_left(a, x) == Cardinality({i \in 1..Len(a) : a[i] < x})

bisect_right(a, x) == BisectLoop(a, x, 0, Len(a))

\* LyricsView.on_player_position
on_player_position(V, ms) ==
    LET idx0 == bisect_right(V.times, ms) - 1
        idx  == IF idx0 < 0 THEN 0 ELSE idx0
    IN  IF V.mode # "synced" THEN V
        ELSE IF V.times = <<>> THEN V
        ELSE IF idx = V.current_index THEN V
        ELSE IF idx + 1 > Len(V.rows) THEN [V EXCEPT !.current_index = idx]
        ELSE [V EXCEPT !.current_index = idx, !.cur = idx + 1]

\* LyricsView._on_synced_item_changed(item, col) for the item at row i.  The slot
\* is connected to itemChanged and runs with signals unblocked, so its own
\* item.setText / item.setData, when they change the item, emit itemChanged
\* again and the slot runs nested before the outer call goes on.
RECURSIVE on_synced_item_changed(_, _)
on_synced_item_changed(V, i) ==
    LET ms == tag_to_ms(V.rows[i].tag)
    IN  IF ~ms.ok
        THEN LET old_tag == ms_to_tag(V.rows[i].ms)
             IN  IF old_tag # V.rows[i].tag
                 THEN on_synced_item_changed([V EXCEPT !.rows[i].tag = old_tag], i)
                 ELSE V
        ELSE LET V1 == IF ms.v # V.rows[i].ms
                       THEN on_synced_item_changed([V EXCEPT !.rows[i].ms = ms.v], i)
                       ELSE V
             IN  [V1 EXCEPT !.times = RowTimes(V1.rows), !.dirty = TRUE]

\* a default time that falls back on the playback position
add_base_ms_from_position(V, pos) ==
    IF V.cur # 0 THEN V.rows[V.cur].ms ELSE IF pos # <<>> THEN pos[1] ELSE 0

\* the default time _add_clicked picks for the new row
add_base_ms(V, pos) == IF V.cur # 0 THEN V.rows[V.cur].ms ELSE 0

\* LyricsView._add_clicked
add_clicked(V, pos) ==
    LET base_ms    == add_base_ms(V, pos)
        insert_idx == IF V.cur # 0 THEN V.cur ELSE Len(V.rows)
        it         == [ms |-> base_ms, tag |-> ms_to_tag(base_ms), text |-> <<>>]
        rs         == SubSeq(V.rows, 1, insert_idx) \o <<it>> \o Drop(V.rows, insert_idx)
    IN  [V EXCEPT !.rows = rs, !.cur = insert_idx + 1, !.times = RowTimes(rs),
                  !.dirty = TRUE]

\* LyricsView._delete_clicked; c is the item the widget makes current once the
\* current one was taken out
delete_clicked(V, c) ==
    IF V.cur = 0 THEN V
    ELSE LET rs == SubSeq(V.rows, 1, V.cur - 1) \o Drop(V.rows, V.cur)
         IN  [V EXCEPT !.rows = rs, !.cur = c, !.dirty = TRUE, !.times = RowTimes(rs)]

\* the shift without the clamp at zero
shift_ms_unclamped(ms, delta_ms) == ms + delta_ms

\* ms2 = max(0, ms + int(delta_ms))
shift_ms(ms, delta_ms) == Max(0, ms + delta_ms)

\* LyricsView._shift_all
shift_all(V, delta_ms) ==
    IF V.mode # "synced" THEN V
    ELSE LET rs == [k \in 1..Len(V.rows) |->
                      [V.rows[k] EXCEPT !.ms = shift_ms(V.rows[k].ms, delta_ms),
                                        !.tag = ms_to_tag(shift_ms(V.rows[k].ms, delta_ms))]]
         IN  [V EXCEPT !.rows = rs, !.times = RowTimes(rs), !.dirty = TRUE]

\* what LyricsView._save_clicked emits as saveRequested(lrc, txt); NULL: no signal.
\* The plain QTextEdit is read-only and was filled by _set_plain, which also
\* stored the same text, stripped, in _last_loaded_txt.
save_emits(V) ==
    LET lrc == serialize_lrc_from_tree(V.rows)
    IN  IF V.mode = "synced"
        THEN <<lrc, IF lrc # <<>> THEN strip_timestamps(lrc) ELSE <<>>>>
        ELSE IF V.mode = "plain" THEN <<<<>>, Strip(V.last_loaded_txt)>>
        ELSE NULL

\* LyricsView._save_clicked
save_clicked(V) ==
    IF V.mode \in {"synced", "plain"}
    THEN [V EXCEPT !.dirty = FALSE, !.last_loaded_lrc = save_emits(V)[1],
                   !.last_loaded_txt = save_emits(V)[2]]
    ELSE V

\* LyricsView._revert_clicked
revert_clicked(V) ==
    LET V1 == IF V.last_loaded_lrc # <<>>
              THEN set_synced_from_pairs(V, parse_lrc(V.last_loaded_lrc))
              ELSE IF V.last_loaded_txt # <<>> THEN set_plain(V, V.last_loaded_txt)
              ELSE set_message(V)
    IN  [V1 EXCEPT !.dirty = FALSE]

(***************************************************************************)
(* Library store (db/database.py, db/queries.py).  A table is the sequence *)
(* of its rows in rowid order.                                             *)
(***************************************************************************)
Sentinel ==
    <<"[", "a", "u", ":", " ", "i", "n", "s", "t", "r", "u", "m", "e", "n", "t", "a", "l", "]">>

RECURSIVE WhitespaceRun(_, _)
WhitespaceRun(s, i) ==
    IF i <= Len(s) /\ s[i] \in Whitespace THEN 1 + WhitespaceRun(s, i + 1) ELSE 0

\* re.search(r"\[au:\s*instrumental\]", s)
InstrumentalRe(s) ==
    LET head == <<"[", "a", "u", ":">>
        tail == <<"i", "n", "s", "t", "r", "u", "m", "e", "n", "t", "a", "l", "]">>
    IN  \E i \in 1..Len(s) :
            /\ StartsWith(Drop(s, i - 1), head)
            /\ StartsWith(Drop(s, i + 3 + WhitespaceRun(s, i + 4)), tail)

\* the rowid SQLite gives the next inserted row: max(rowid) + 1
NextRowId(T) ==
    IF T = <<>> THEN 1
    ELSE 1 + (CHOOSE m \in {T[k].id : k \in 1..Len(T)} : \A k \in 1..Len(T) : T[k].id <= m)

\* clean_library(db): DELETE FROM the table, for each of tracks, albums, artists
clean_library(T) == <<>>

\* (s or "").strip() or None
StripOrNone(s) == IF s = NULL \/ Strip(s) = <<>> THEN NULL ELSE Strip(s)

\* update_track_synced_lyrics(db, track_id, synced_lyrics, plain_lyrics)
update_track_synced_lyrics(T, track_id, synced_lyrics, plain_lyrics) ==
    [k \in 1..Len(T) |->
        IF T[k].id = track_id
        THEN [T[k] EXCEPT !.lrc_lyrics = StripOrNone(synced_lyrics),
                          !.txt_lyrics = StripOrNone(plain_lyrics),
                          !.instrumental = FALSE]
        ELSE T[k]]

\* a plain-only update that leaves the synced field of the row as it was
update_track_plain_lyrics_keeps_synced(T, track_id, plain_lyrics) ==
    [k \in 1..Len(T) |->
        IF T[k].id = track_id
        THEN [T[k] EXCEPT !.txt_lyrics = StripOrNone(plain_lyrics), !.instrumental = FALSE]
        ELSE T[k]]

\* update_track_plain_lyrics(db, track_id, plain_lyrics)
update_track_plain_lyrics(T, track_id, plain_lyrics) ==
    [k \in 1..Len(T) |->
        IF T[k].id = track_id
        THEN [T[k] EXCEPT !.txt_lyrics = StripOrNone(plain_lyrics),
                          !.lrc_lyrics = NULL, !.instrumental = FALSE]
        ELSE T[k]]

\* update_track_null_lyrics(db, track_id)
update_track_null_lyrics(T, track_id) ==
    [k \in 1..Len(T) |->
        IF T[k].id = track_id
        THEN [T[k] EXCEPT !.txt_lyrics = NULL, !.lrc_lyrics = NULL, !.instrumental = FALSE]
        ELSE T[k]]

\* the row update_track_instrumental and mark_tracks_instrumental write
MarkRow(r) == [r EXCEPT !.txt_lyrics = NULL, !.lrc_lyrics = Sentinel, !.instrumental = TRUE]

\* unmark that clears the flag and leaves the sentinel in lrc_lyrics
UnmarkRow_keeps_sentinel(r) == [r EXCEPT !.instrumental = FALSE]

\* the row unmark_tracks_instrumental writes
UnmarkRow(r) ==
    [r EXCEPT !.instrumental = FALSE,
              !.lrc_lyrics = IF r.lrc_lyrics = Sentinel THEN NULL ELSE r.lrc_lyrics]

\* update_track_instrumental(db, track_id)
update_track_instrumental(T, track_id) ==
    [k \in 1..Len(T) |-> IF T[k].id = track_id THEN MarkRow(T[k]) ELSE T[k]]

\* mark_tracks_instrumental(db, track_ids): executemany over the ids, committed
mark_tracks_instrumental(T, track_ids) ==
    [k \in 1..Len(T) |-> IF T[k].id \in track_ids THEN MarkRow(T[k]) ELSE T[k]]

\* unmark_tracks_instrumental(db, track_ids)
unmark_tracks_instrumental(T, track_ids) ==
    [k \in 1..Len(T) |-> IF T[k].id \in track_ids THEN UnmarkRow(T[k]) ELSE T[k]]

\* the first n of the ids handed to executemany (ids are taken in ascending order)
RECURSIVE FirstIds(_, _)
FirstIds(track_ids, n) ==
    IF n = 0 \/ track_ids = {} THEN {}
    ELSE LET lo == CHOOSE i \in track_ids : \A j \in track_ids : i <= j
         IN  {lo} \cup FirstIds(track_ids \ {lo}, n - 1)

\* db.rollback() that leaves the statements already executed in place
rollback_keeps_pending(T_begin, T_pending) == T_pending

\* db.rollback(): the table as it was at BEGIN, whatever the statements of the
\* transaction did to it
rollback(T_begin, T_pending) == T_begin

\* mark_tracks_instrumental(db, track_ids) when the k-th statement of executemany
\* raises (k = number of ids + 1: the commit raises): the except branch rolls back
mark_tracks_instrumental_raising(T, track_ids, k) ==
    rollback(T, mark_tracks_instrumental(T, FirstIds(track_ids, k - 1)))

\* unmark_tracks_instrumental(db, track_ids) when its k-th statement raises
unmark_tracks_instrumental_raising(T, track_ids, k) ==
    rollback(T, unmark_tracks_instrumental(T, FirstIds(track_ids, k - 1)))

\* the WHERE clause get_track_ids and get_track_rows build from the four flags
\* (no search text, no artist or album filter)
FilterWhere(r, synced_lyrics, plain_lyrics, instrumental, no_lyrics) ==
    /\ (~synced_lyrics => (r.lrc_lyrics = NULL \/ r.lrc_lyrics = Sentinel))
    /\ (~plain_lyrics => (r.txt_lyrics = NULL \/ r.lrc_lyrics # NULL))
    /\ (~instrumental => r.instrumental = FALSE)
    /\ (~no_lyrics => (r.txt_lyrics # NULL \/ r.lrc_lyrics # NULL \/ r.instrumental = TRUE))

\* get_track_ids(db, synced_lyrics, plain_lyrics, instrumental, no_lyrics), as a set
get_track_ids(T, synced_lyrics, plain_lyrics, instrumental, no_lyrics) ==
    {T[k].id : k \in {j \in 1..Len(T) :
        FilterWhere(T[j], synced_lyrics, plain_lyrics, instrumental, no_lyrics)}}

\* get_track_rows(db, "", synced, plain, instrumental, no_lyrics), the ids of its rows
get_track_rows(T, synced_tracks, plain_tracks, instrumental_tracks, no_lyrics_tracks) ==
    {T[k].id : k \in {j \in 1..Len(T) :
        FilterWhere(T[j], synced_tracks, plain_tracks, instrumental_tracks, no_lyrics_tracks)}}

\* TrackListWidget.refresh: the lyrics state shown for a row of get_track_rows
lyrics_state(r) ==
    IF r.instrumental THEN "instrumental"
    ELSE IF r.lrc_lyrics # NULL /\ r.lrc_lyrics # <<>> /\ r.lrc_lyrics # Sentinel THEN "synced"
    ELSE IF r.txt_lyrics # NULL /\ r.txt_lyrics # <<>> THEN "plain"
    ELSE "none"

\* LyricsDownloadWorker.run from the lookup's answer on: the table after the run.
\* synced/plain are the answer's synced_lyrics and plain_lyrics (NULL: absent).
\* Extraction always stores a non-blank title and artist (scan_library.py 244-246),
\* so the "Missing title/artist" return is not taken.
download_run(T, track_id, synced_lyrics, plain_lyrics) ==
    LET synced == StripOrNone(synced_lyrics)
        plain  == StripOrNone(plain_lyrics)
        plain2 == IF plain = NULL THEN StripOrNone(strip_timestamps(synced)) ELSE plain
    IN  IF ~(\E k \in 1..Len(T) : T[k].id = track_id) THEN T
        ELSE IF synced # NULL
        THEN update_track_synced_lyrics(T, track_id, synced,
                                        IF plain2 = NULL THEN <<>> ELSE plain2)
        ELSE IF plain # NULL THEN update_track_plain_lyrics(T, track_id, plain)
        ELSE T

\* MainWindow._on_lyrics_save_requested(lrc, txt) with player.track.track_id = track_id
on_lyrics_save_requested(T, track_id, lrc, txt) ==
    IF Strip(lrc) # <<>> THEN update_track_synced_lyrics(T, track_id, Strip(lrc), Strip(txt))
    ELSE IF Strip(txt) # <<>> THEN update_track_plain_lyrics(T, track_id, Strip(txt))
    ELSE update_track_null_lyrics(T, track_id)

(***************************************************************************)
(* Schema migrations (db/database.py, db/migrations.py).  A store is the   *)
(* record of its tables and of its user_version; a table that was not      *)
(* created yet is the empty sequence.                                      *)
(***************************************************************************)
CURRENT_DB_VERSION == 7

\* the store the variables hold
Store ==
    [tracks |-> tracks, artists |-> artists, albums |-> albums,
     directories |-> directories, library_init |-> library_init,
     user_version |-> user_version, applied |-> applied, schema |-> schema]

\* the test in front of step k, as one that skips the step next to the stored version
step_due_strict(existing_version, k) == existing_version < k - 1

\* the test in front of step k: "if existing_version <= k - 1"
step_due(existing_version, k) == existing_version <= k - 1

\* the script of step 5 without its DELETE and UPDATE statements
step_script_keeps_library(D, k) ==
    IF k = 1
    THEN [D EXCEPT !.tracks = <<>>, !.artists = <<>>, !.albums = <<>>,
                   !.directories = <<>>, !.library_init = FALSE]
    ELSE D

\* what the script of step k does to the library data: step 1 creates the tables
\* and the library_data row with init = 0, step 5 empties tracks, albums and
\* artists and resets init; steps 2, 3, 4 add columns and indexes, steps 6 and 7
\* change config_data only
step_script(D, k) ==
    IF k = 1
    THEN [D EXCEPT !.tracks = <<>>, !.artists = <<>>, !.albums = <<>>,
                   !.directories = <<>>, !.library_init = FALSE]
    ELSE IF k = 5
    THEN [D EXCEPT !.tracks = <<>>, !.albums = <<>>, !.artists = <<>>,
                   !.library_init = FALSE]
    ELSE D

\* the head of one "if existing_version <= k - 1" block: the print and
\* db.execute("PRAGMA user_version=k"), which runs outside a transaction and is
\* on the file at once
step_head(D, k) == [D EXCEPT !.user_version = k, !.applied = Append(@, k)]

\* one "if existing_version <= k - 1" block: the print, PRAGMA user_version=k,
\* the script, the commit; raises: the script (executescript, or the ALTER of
\* steps 3 and 7) raises at its first statement, or the process ends there, and
\* the block is left
migrate_step(D, k, raises) ==
    IF raises THEN step_head(D, k)
    ELSE [step_script(step_head(D, k), k) EXCEPT !.schema = @ \cup {k}]

\* the blocks from the k-th on, in the order they are written
\* fail = 0: no block raises; fail = j: block j raises, and the exception leaves
\* upgrade_database_if_needed with the later blocks not run
RECURSIVE MigrateFrom(_, _, _, _)
MigrateFrom(D, existing_version, k, fail) ==
    IF k > CURRENT_DB_VERSION THEN D
    ELSE IF ~step_due(existing_version, k) THEN MigrateFrom(D, existing_version, k + 1, fail)
    ELSE IF k = fail THEN migrate_step(D, k, TRUE)
    ELSE MigrateFrom(migrate_step(D, k, FALSE), existing_version, k + 1, fail)

\* upgrade_database_if_needed(db, existing_version)
upgrade_database_if_needed(D, existing_version, fail) ==
    IF existing_version < CURRENT_DB_VERSION
    THEN MigrateFrom(D, existing_version, 1, fail)
    ELSE D

\* initialize_database(app_data_dir): reads PRAGMA user_version and upgrades
initialize_database(D, fail) == upgrade_database_if_needed(D, D.user_version, fail)

(***************************************************************************)
(* Search keys (core/utils.py).  A character outside ASCII is written by   *)
(* its code point: "U+00E9" is e with acute, "U+0301" the combining acute, *)
(* "U+0130" capital I with dot above, "U+0307" the combining dot above,    *)
(* "U+FF01" the fullwidth exclamation mark, "U+2019" the right single      *)
(* quotation mark.                                                         *)
(***************************************************************************)
UpperLetters ==
    <<"A", "B", "C", "D", "E", "F", "G", "H", "I", "J", "K", "L", "M",
      "N", "O", "P", "Q", "R", "S", "T", "U", "V", "W", "X", "Y", "Z">>
LowerLetters ==
    <<"a", "b", "c", "d", "e", "f", "g", "h", "i", "j", "k", "l", "m",
      "n", "o", "p", "q", "r", "s", "t", "u", "v", "w", "x", "y", "z">>

\* str.lower() on one character
LowerChar(c) ==
    IF \E k \in 1..26 : UpperLetters[k] = c
    THEN LowerLetters[CHOOSE k \in 1..26 : UpperLetters[k] = c]
    ELSE c

Lower(s) == [k \in 1..Len(s) |-> LowerChar(s[k])]

\* unicodedata.normalize('NFKD', c) for one character
NFKDChar(c) ==
    IF c = "U+00E9" THEN <<"e", "U+0301">>
    ELSE IF c = "U+0130" THEN <<"I", "U+0307">>
    ELSE IF c = "U+FF01" THEN <<"!">>
    ELSE <<c>>

RECURSIVE NFKD(_)
NFKD(s) == IF s = <<>> THEN <<>> ELSE NFKDChar(Head(s)) \o NFKD(Tail(s))

\* unicodedata.combining(c) != 0
Combining(c) == c \in {"U+0301", "U+0307"}

\* ''.join(c for c in s if <keep>), re.sub(<one character class>, "", s)
RECURSIVE DropChars(_, _)
DropChars(s, cs) ==
    IF s = <<>> THEN <<>>
    ELSE (IF Head(s) \in cs THEN <<>> ELSE <<Head(s)>>) \o DropChars(Tail(s), cs)

\* lower_lay_string(s)
lower_lay_string(s) == DropChars(NFKD(s), {"U+0301", "U+0307"})

\* re.sub(r"\s+", " ", s): every run of white space becomes one space
RECURSIVE SubSpaceRuns(_)
SubSpaceRuns(s) ==
    IF s = <<>> THEN <<>>
    ELSE IF Head(s) \in Whitespace
    THEN <<" ">> \o SubSpaceRuns(Drop(s, WhitespaceRun(s, 1)))
    ELSE <<Head(s)>> \o SubSpaceRuns(Tail(s))

\* collapse(s)
collapse(s) == Strip(SubSpaceRuns(s))

\* the class of special characters prepare_input replaces by a space; "U+0060"
\* is the grave accent
SpecialChars ==
    {"U+0060", "~", "!", "@", "#", "$", "%", "^", "&", "*", "(", ")", "_", "|", "+", "-",
     "=", "?", ";", ":", "\"", ",", ".", "<", ">", "{", "}", "[", "]", "\\", "/"}

\* the class of the right single quotation mark and the apostrophe
Apostrophes == {"U+2019", "'"}

\* prepare_input with the apostrophes taken out after the collapse
prepare_input_apostrophes_last(input_str) ==
    LET lay     == lower_lay_string(input_str)
        spaced  == [k \in 1..Len(lay) |-> IF lay[k] \in SpecialChars THEN " " ELSE lay[k]]
    IN  DropChars(collapse(Lower(spaced)), Apostrophes)

\* prepare_input with each apostrophe replaced by a space
prepare_input_apostrophes_spaced(input_str) ==
    LET lay     == lower_lay_string(input_str)
        spaced  == [k \in 1..Len(lay) |->
                       IF lay[k] \in SpecialChars \cup Apostrophes THEN " " ELSE lay[k]]
    IN  collapse(Lower(spaced))

\* prepare_input(input_str)
prepare_input(input_str) ==
    LET lay     == lower_lay_string(input_str)
        spaced  == [k \in 1..Len(lay) |-> IF lay[k] \in SpecialChars THEN " " ELSE lay[k]]
        cleaned == DropChars(spaced, Apostrophes)
    IN  collapse(Lower(cleaned))

(***************************************************************************)
(* Tables artists and albums (db/database.py): the rows add_track inserts  *)
(* beside the tracks row.                                                  *)
(***************************************************************************)
\* find_artist that finds no row
find_artist_finds_none(A, name) == 0

\* find_artist(db, name): the id of the first row of that name, 0 for ValueError
find_artist(A, name) ==
    IF \E k \in 1..Len(A) : A[k].name = name
    THEN A[CHOOSE k \in 1..Len(A) :
               A[k].name = name /\ \A j \in 1..(k - 1) : A[j].name # name].id
    ELSE 0

\* add_artist(db, name), the table after it
add_artist(A, name) ==
    Append(A, [id |-> NextRowId(A), name |-> name, name_lower |-> prepare_input(name)])

\* find_album(db, name, album_artist_name), 0 for ValueError
find_album(B, name, album_artist_name) ==
    LET hit(k) == B[k].name = name /\ B[k].album_artist_name = album_artist_name
    IN  IF \E k \in 1..Len(B) : hit(k)
        THEN B[CHOOSE k \in 1..Len(B) : hit(k) /\ \A j \in 1..(k - 1) : ~hit(j)].id
        ELSE 0

\* add_album(db, name, album_artist_name), the table after it
add_album(B, name, album_artist_name) ==
    Append(B, [id |-> NextRowId(B), name |-> name, name_lower |-> prepare_input(name),
               album_artist_name |-> album_artist_name,
               album_artist_name_lower |-> prepare_input(album_artist_name)])

\* add_track(db, track), the artists table after it: find_artist, else add_artist
add_track_artist(A, track) ==
    IF find_artist(A, track.artist) # 0 THEN A ELSE add_artist(A, track.artist)

\* add_track(db, track), the albums table after it: find_album, else add_album
add_track_album(B, track) ==
    IF find_album(B, track.album, track.album_artist) # 0 THEN B
    ELSE add_album(B, track.album, track.album_artist)

\* add_track(db, track), the tracks row it inserts: A and B are the artists and
\* albums tables before the call; a missing artist or album gets the next rowid
add_track(T, A, B, track) ==
    LET artist_id == IF find_artist(A, track.artist) # 0
                     THEN find_artist(A, track.artist) ELSE NextRowId(A)
        album_id  == IF find_album(B, track.album, track.album_artist) # 0
                     THEN find_album(B, track.album, track.album_artist) ELSE NextRowId(B)
        is_instrumental ==
            /\ track.lrc_lyrics # NULL
            /\ track.lrc_lyrics # <<>>
            /\ InstrumentalRe(track.lrc_lyrics)
    IN  Append(T, [id |-> NextRowId(T), file_path |-> track.file_path,
                   artist_id |-> artist_id, album_id |-> album_id,
                   txt_lyrics |-> track.txt_lyrics, lrc_lyrics |-> track.lrc_lyrics,
                   instrumental |-> is_instrumental])

\* add_tracks(db, tracks): add_track for each, in order (the loop from the k-th on);
\* the three tables after it
RECURSIVE AddTracksFrom(_, _, _, _, _)
AddTracksFrom(T, A, B, ts, k) ==
    IF k > Len(ts) THEN [tracks |-> T, artists |-> A, albums |-> B]
    ELSE LET T1 == add_track(T, A, B, ts[k])
             A1 == add_track_artist(A, ts[k])
             B1 == add_track_album(B, ts[k])
         \* each insert adds a row; the test makes the tables be computed insert by insert
         IN  IF Len(T1) > Len(T) /\ Len(A1) >= Len(A) /\ Len(B1) >= Len(B)
             THEN AddTracksFrom(T1, A1, B1, ts, k + 1)
             ELSE [tracks |-> T1, artists |-> A1, albums |-> B1]

\* add_tracks(db, tracks), the tracks table after it
add_tracks(T, A, B, ts) == AddTracksFrom(T, A, B, ts, 1).tracks

\* add_tracks(db, tracks), the artists table after it
RECURSIVE AddArtistsFrom(_, _, _)
AddArtistsFrom(A, ts, k) ==
    IF k > Len(ts) THEN A
    ELSE LET A1 == add_track_artist(A, ts[k])
         IN  IF Len(A1) >= Len(A) THEN AddArtistsFrom(A1, ts, k + 1) ELSE A1

add_tracks_artists(A, ts) == AddArtistsFrom(A, ts, 1)

\* add_tracks(db, tracks), the albums table after it
RECURSIVE AddAlbumsFrom(_, _, _)
AddAlbumsFrom(B, ts, k) ==
    IF k > Len(ts) THEN B
    ELSE LET B1 == add_track_album(B, ts[k])
         IN  IF Len(B1) >= Len(B) THEN AddAlbumsFrom(B1, ts, k + 1) ELSE B1

add_tracks_albums(B, ts) == AddAlbumsFrom(B, ts, 1)

(***************************************************************************)
(* Metadata extraction (library/scan_library.py).  A file is a record      *)
(* [audio, ext, artist, album, albumartist, txt_sidecar, lrc_sidecar,      *)
(* txt_embedded, lrc_embedded]: audio is what MutagenFile(path, easy=True) *)
(* does ("ok", "none": returns None, "raise": raises), ext the lower-cased *)
(* suffix of the path, artist, album and albumartist what _first returns   *)
(* for the tag (NULL: None), txt_sidecar and lrc_sidecar the content of    *)
(* the file beside the audio file (NULL: no such file, or it cannot be     *)
(* read), txt_embedded and lrc_embedded the values the tag container holds *)
(* in its plain and its synced lyrics field (NULL: no such field).  Files  *)
(* handed to FsTrack.new_from_path (library/fs_track.py) have a title too. *)
(***************************************************************************)
UnknownArtist == <<"U", "n", "k", "n", "o", "w", "n", " ", "A", "r", "t", "i", "s", "t">>
UnknownAlbum == <<"U", "n", "k", "n", "o", "w", "n", " ", "A", "l", "b", "u", "m">>

\* a or b on Optional[str]
PyOr(a, b) == IF a # NULL /\ a # <<>> THEN a ELSE b

\* _read_sidecar, for one of the two files: "x.strip() if x else None"
read_sidecar(content) ==
    IF content = NULL \/ content = <<>> THEN NULL ELSE Strip(content)

\* read_embedded_lyrics._norm
norm_embedded(s) == IF s = NULL \/ Strip(s) = <<>> THEN NULL ELSE Strip(s)

\* the suffixes read_embedded_lyrics has a branch for; every other suffix takes the
\* generic branch
TypedExts == {".mp3", ".flac", ".ogg", ".oga", ".opus", ".m4a", ".mp4"}

\* the generic branch of read_embedded_lyrics: the first non-empty value under the
\* keys tried in order, VORBIS_SYNCED_KEY first and VORBIS_PLAIN_KEY second, is
\* assigned to plain; synced is never assigned
generic_plain(f) ==
    IF f.lrc_embedded # NULL /\ f.lrc_embedded # <<>> THEN f.lrc_embedded
    ELSE IF f.txt_embedded # NULL /\ f.txt_embedded # <<>> THEN f.txt_embedded
    ELSE NULL

\* read_embedded_lyrics(path)
read_embedded_lyrics(f) ==
    IF f.ext \in TypedExts
    THEN [plain |-> norm_embedded(f.txt_embedded), synced |-> norm_embedded(f.lrc_embedded)]
    ELSE [plain |-> norm_embedded(generic_plain(f)), synced |-> NULL]

\* new_fs_track_from_path(path): result is "raise" (MutagenFile raised), "none"
\* (it returned None, so does the function) or "track" with the FsTrack built
new_fs_track_from_path(path, f) ==
    [result |-> IF f.audio = "raise" THEN "raise"
                ELSE IF f.audio = "none" THEN "none" ELSE "track",
     track  |-> [file_path  |-> path,
                 artist     |-> PyOr(f.artist, UnknownArtist),
                 album      |-> PyOr(f.album, UnknownAlbum),
                 album_artist |-> PyOr(f.albumartist, PyOr(f.artist, UnknownArtist)),
                 txt_lyrics |-> PyOr(read_sidecar(f.txt_sidecar),
                                     read_embedded_lyrics(f).plain),
                 lrc_lyrics |-> PyOr(read_sidecar(f.lrc_sidecar),
                                     read_embedded_lyrics(f).synced)]]

(***************************************************************************)
(* Bounds and drawn inputs.                                                *)
(***************************************************************************)
MaxPairs == 2          \* pairs handed to serialize
MaxOps == 4            \* UI events per editing session
MaxTracks == 2         \* rows of the tracks table in the store specification
MaxFiles == 201        \* files of the longest walked path list
MaxStampMs == 1200     \* every time up to it is formatted and parsed back
MaxKeyLen == 3         \* characters of the longest string handed to prepare_input
MaxLrcLines == 3       \* lines of the longest text handed to parse_lrc and strip_timestamps
MaxPoolFiles == 4      \* files of the longest walk handed to the thread-pool loader
MaxStoredVersion == 8  \* largest user_version of a store file that is opened
MaxOpens == 2          \* initialize_database calls on one store file
MaxWindowOps == 3      \* plays, download starts and saves in one run of the window

BatchSize == 100       \* len(batch) >= 100
ProgressEvery == 200   \* scanned % 200 == 0

T_a == <<"a">>
T_b == <<"b">>
T_la == <<"l", "a">>
T_padded == <<"a", " ">>
T_blank == <<" ">>
T_tagged == <<"x", "[", "1", ":", "2", "]", "y">>
T_twolines == <<"a", "\n", "b">>
\* "[00:00.10]a\n[00:00.50]b": times 100 and 500
L_two ==
    <<"[", "0", "0", ":", "0", "0", ".", "1", "0", "]", "a", "\n",
      "[", "0", "0", ":", "0", "0", ".", "5", "0", "]", "b">>
\* "[00:01.234]a": a time that is not a multiple of 10 ms
L_millis == <<"[", "0", "0", ":", "0", "1", ".", "2", "3", "4", "]", "a">>
\* "[00:01.00]la"
L_la == <<"[", "0", "0", ":", "0", "1", ".", "0", "0", "]", "l", "a">>
\* "[au:instrumental]": matches the instrumental pattern, is not the sentinel
L_au_nospace ==
    <<"[", "a", "u", ":", "i", "n", "s", "t", "r", "u", "m", "e", "n", "t", "a", "l", "]">>
\* "[AU: Instrumental]"
L_au_upper ==
    <<"[", "A", "U", ":", " ", "I", "n", "s", "t", "r", "u", "m", "e", "n", "t", "a", "l", "]">>
\* time cell texts a user may type
G_bad == <<"x">>
G_negative == <<"-", "1", ":", "3", "0">>
G_valid == <<"0", "0", ":", "0", "0", ".", "3">>

CodecTimes == {0, 500, 1234, 61500}
CodecTexts == {T_a, T_b, T_padded, T_blank, T_tagged, T_twolines}
CodecPair == [ms : CodecTimes, text : CodecTexts]

LoadInputs ==
    { [txt |-> NULL, lrc |-> L_two, instrumental |-> FALSE],
      [txt |-> T_la, lrc |-> L_millis, instrumental |-> FALSE],
      [txt |-> T_la, lrc |-> NULL, instrumental |-> FALSE],
      [txt |-> NULL, lrc |-> Sentinel, instrumental |-> TRUE] }
EditTags == {G_bad, G_negative, G_valid}
EditTexts == {<<>>, T_b}
Deltas == {-200, 200}
Positions == {0, 300}

LrcValues == {NULL, Sentinel, L_au_nospace, L_au_upper, L_la}
TxtValues == {NULL, T_la}
RemoteSynced == {NULL, Sentinel, L_la, T_blank}
RemotePlain == {NULL, T_la}
SaveInputs == {<<L_la, T_la>>, <<<<>>, T_la>>, <<<<>>, <<>>>>}
OkFile == [audio |-> "ok", ext |-> ".mp3", title |-> T_a, artist |-> NULL, album |-> NULL, albumartist |-> NULL,
           txt_sidecar |-> NULL, lrc_sidecar |-> NULL,
           txt_embedded |-> NULL, lrc_embedded |-> NULL]
BadFile(kind) == [OkFile EXCEPT !.audio = kind]

Files ==
    [audio : {"ok"}, ext : {".mp3"}, artist : {NULL}, album : {NULL}, albumartist : {NULL},
     txt_sidecar : TxtValues, lrc_sidecar : {NULL, L_la},
     txt_embedded : {NULL}, lrc_embedded : LrcValues]

(***************************************************************************)
(* Codec harness: serialize drawn pairs, then parse the text.              *)
(***************************************************************************)
SortedByMs(ps) == \A i \in 1..(Len(ps) - 1) : ps[i].ms <= ps[i + 1].ms

PairsIdle == pairs = <<>> /\ lrc_out = NULL /\ parsed = <<>> /\ codec_pc = "input"

StampIdle ==
    /\ stamp_in = 0
    /\ stamp_tag = NULL
    /\ stamp_out = [ok |-> FALSE, v |-> 0]
    /\ stamp_pc = "idle"

NormIdle == norm_in = <<>> /\ norm_once = <<>> /\ norm_twice = <<>> /\ norm_pc = "idle"

FnIdle == fn_in = [kind |-> "none"] /\ fn_out = [kind |-> "none"] /\ fn_pc = "idle"

CodecIdle == PairsIdle /\ StampIdle /\ NormIdle /\ FnIdle

CodecInit ==
    /\ pairs \in {ps \in UNION {[1..n -> CodecPair] : n \in 0..MaxPairs} : SortedByMs(ps)}
    /\ lrc_out = NULL
    /\ parsed = <<>>
    /\ codec_pc = "input"
    /\ StampIdle
    /\ NormIdle
    /\ FnIdle

Serialize ==
    /\ codec_pc = "input"
    /\ lrc_out' = serialize_lrc_from_tree(pairs)
    /\ codec_pc' = "serialized"
    /\ UNCHANGED <<pairs, parsed, stamp_vars, norm_vars, fn_vars, view_vars, store_vars, scan_vars>>

Parse ==
    /\ codec_pc = "serialized"
    /\ parsed' = parse_lrc(lrc_out)
    /\ codec_pc' = "parsed"
    /\ UNCHANGED <<pairs, lrc_out, stamp_vars, norm_vars, fn_vars, view_vars, store_vars, scan_vars>>

CodecNext == Serialize \/ Parse

(***************************************************************************)
(* Time cell harness: format a drawn time and parse the tag back, or parse *)
(* a drawn text as the time cell editor does.                              *)
(***************************************************************************)
StampTimes == (0..MaxStampMs) \cup {59999, 60000, 61234, 359990, 359995, 359999, -1, -1234}

StampMinutes == {<<"0">>, <<"0", "1">>, <<"1", "2">>}
StampSeconds == {<<"0">>, <<"3", "0">>, <<"5", "9">>, <<"7", "5">>}
StampFractions == {<<"5">>, <<"0", "5">>, <<"5", "0">>, <<"1", "2", "3">>, <<"9", "9", "9">>}
StampSeparators == {".", ","}

\* texts of the shape mm:ss or mm:ss<sep>frac
ShapedTags ==
    {mm \o <<":">> \o ss : mm \in StampMinutes, ss \in StampSeconds}
    \cup {mm \o <<":">> \o ss \o <<sep>> \o frac :
            mm \in StampMinutes, ss \in StampSeconds,
            sep \in StampSeparators, frac \in StampFractions}

\* texts of another shape: "x", "-1:30", "+1:30", "1:30.", "1:30.1234",
\* " 1 : 30 ", " 1:30", "", "1:30:2", "1_0:00", ":30", "1:", "1:30.-5"
OtherTags ==
    { G_bad, G_negative,
      <<"+", "1", ":", "3", "0">>,
      <<"1", ":", "3", "0", ".">>,
      <<"1", ":", "3", "0", ".", "1", "2", "3", "4">>,
      <<" ", "1", " ", ":", " ", "3", "0", " ">>,
      <<" ", "1", ":", "3", "0">>,
      <<>>,
      <<"1", ":", "3", "0", ":", "2">>,
      <<"1", "_", "0", ":", "0", "0">>,
      <<":", "3", "0">>,
      <<"1", ":">>,
      <<"1", ":", "3", "0", ".", "-", "5">> }

StampInit ==
    /\ stamp_out = [ok |-> FALSE, v |-> 0]
    /\ \/ stamp_pc = "ms" /\ stamp_in \in StampTimes /\ stamp_tag = NULL
       \/ stamp_pc = "typed" /\ stamp_in = 0 /\ stamp_tag \in ShapedTags \cup OtherTags

\* QTreeWidgetItem([ms_to_tag(ms), text]): the tag a stored time is shown as
FormatStamp ==
    /\ stamp_pc = "ms"
    /\ stamp_tag' = ms_to_tag(stamp_in)
    /\ stamp_pc' = "formatted"
    /\ UNCHANGED <<stamp_in, stamp_out, pairs, lrc_out, parsed, codec_pc,
                   norm_vars, fn_vars, view_vars, store_vars, scan_vars>>

\* ms = tag_to_ms(item.text(0))
ParseStamp ==
    /\ stamp_pc \in {"formatted", "typed"}
    /\ stamp_out' = tag_to_ms(stamp_tag)
    /\ stamp_pc' = IF stamp_pc = "formatted" THEN "round_trip" ELSE "parsed"
    /\ UNCHANGED <<stamp_in, stamp_tag, pairs, lrc_out, parsed, codec_pc,
                   norm_vars, fn_vars, view_vars, store_vars, scan_vars>>

StampNext == FormatStamp \/ ParseStamp

(***************************************************************************)
(* Search key harness: prepare_input on a drawn string, then on its result.*)
(***************************************************************************)
KeyChars == {"a", "A", "U+00E9", "U+0301", "U+0130", "'", "U+2019", "-", " ", "\t", "U+FF01"}

\* a word with an apostrophe inside, written with either apostrophe
DontWords == {<<"d", "o", "n", "'", "t">>, <<"D", "o", "n", "U+2019", "t">>}

NormInit ==
    /\ norm_in \in UNION {[1..n -> KeyChars] : n \in 0..MaxKeyLen} \cup DontWords
    /\ norm_once = <<>>
    /\ norm_twice = <<>>
    /\ norm_pc = "input"

NormalizeOnce ==
    /\ norm_pc = "input"
    /\ norm_once' = prepare_input(norm_in)
    /\ norm_pc' = "once"
    /\ UNCHANGED <<norm_in, norm_twice, pairs, lrc_out, parsed, codec_pc, stamp_vars,
                   fn_vars, view_vars, store_vars, scan_vars>>

NormalizeTwice ==
    /\ norm_pc = "once"
    /\ norm_twice' = prepare_input(norm_once)
    /\ norm_pc' = "twice"
    /\ UNCHANGED <<norm_in, norm_once, pairs, lrc_out, parsed, codec_pc, stamp_vars,
                   fn_vars, view_vars, store_vars, scan_vars>>

NormNext == NormalizeOnce \/ NormalizeTwice

(***************************************************************************)
(* Function harness: one call of a function of the library on an argument  *)
(* drawn from a bounded set.                                               *)
(***************************************************************************)
\* files with and without each sidecar and each embedded field, of two suffixes with
\* a branch of their own in read_embedded_lyrics and of the one audio suffix without
ExtractFiles ==
    [audio : {"ok"}, ext : {".mp3", ".flac", ".wav"},
     artist : {NULL}, album : {NULL}, albumartist : {NULL},
     txt_sidecar : {NULL, <<>>, T_blank, T_padded, T_la},
     lrc_sidecar : {NULL, T_blank, L_la},
     txt_embedded : {NULL, T_blank, T_b},
     lrc_embedded : {NULL, Sentinel}]

\* lines of an LRC text: a tagged line, a line of two tags that are out of order,
\* a metadata header followed by a tagged text, a line of one tag alone, a line of a tag and another group
\* alone, a line without tag, an empty line
Tag_1 == <<"[", "0", "0", ":", "0", "1", ".", "0", "0", "]">>
Tag_2 == <<"[", "0", "0", ":", "0", "2", ".", "0", "0", "]">>
LrcLines ==
    {Tag_1 \o <<"a">>, Tag_2 \o Tag_1 \o <<"b">>,
     <<"[", "a", "r", ":", "x", "]">> \o Tag_1 \o <<"d">>,
     Tag_1, Tag_1 \o <<"[", "x", "]">>, <<"c">>, <<>>}

LrcTexts == UNION {[1..n -> LrcLines] : n \in 1..MaxLrcLines}

FnInit ==
    /\ fn_in \in [kind : {"file"}, arg : ExtractFiles]
                 \cup {[kind |-> "lrc", arg |-> JoinLines(ls), lines |-> ls] : ls \in LrcTexts}
    /\ fn_out = [kind |-> "none"]
    /\ fn_pc = "input"

\* the scanner extracts the file at a path
Extract ==
    /\ fn_pc = "input" /\ fn_in.kind = "file"
    /\ fn_out' = new_fs_track_from_path(1, fn_in.arg)
    /\ fn_pc' = "extracted"
    /\ UNCHANGED <<fn_in, pairs, lrc_out, parsed, codec_pc, stamp_vars, norm_vars,
                   view_vars, store_vars, scan_vars>>

\* a caller derives the plain text of synced lyrics
StripTimestamps ==
    /\ fn_pc = "input" /\ fn_in.kind = "lrc"
    /\ fn_out' = [view |-> strip_timestamps(fn_in.arg),
                  embed |-> embed_strip_timestamps(fn_in.arg)]
    /\ fn_pc' = "stripped"
    /\ UNCHANGED <<fn_in, pairs, lrc_out, parsed, codec_pc, stamp_vars, norm_vars,
                   view_vars, store_vars, scan_vars>>

\* a caller parses synced lyrics
ParseText ==
    /\ fn_pc = "input" /\ fn_in.kind = "lrc"
    /\ fn_out' = [pairs |-> parse_lrc(fn_in.arg)]
    /\ fn_pc' = "parsed"
    /\ UNCHANGED <<fn_in, pairs, lrc_out, parsed, codec_pc, stamp_vars, norm_vars,
                   view_vars, store_vars, scan_vars>>

FnNext == Extract \/ StripTimestamps \/ ParseText

(***************************************************************************)
(* LyricsView events.                                                      *)
(***************************************************************************)
Event(op, i, s, d) == [op |-> op, i |-> i, s |-> s, d |-> d]

\* no LyricsDownloadWorker is running
WorkerIdle == [pc |-> "idle", track_id |-> 0, path |-> 0, synced |-> NULL, plain |-> NULL]

\* the window as built: nothing was played (player.track is None), no worker
WindowIdle ==
    [player_track |-> 0, shown_track |-> 0, worker |-> WorkerIdle, ev |-> "init", wops |-> 0]

ViewInit ==
    /\ rows = <<>>
    /\ times = <<>>
    /\ dirty = FALSE
    /\ current_index = -1
    /\ cur = 0
    /\ mode = "msg"
    /\ edit_enabled = FALSE
    /\ last_loaded_lrc = <<>>
    /\ last_loaded_txt = <<>>
    /\ position = <<>>
    /\ nops = 0
    /\ last = Event("init", 0, <<>>, 0)
    /\ window = WindowIdle

Handled(ev) ==
    /\ nops < MaxOps
    /\ nops' = nops + 1
    /\ last' = ev
    /\ UNCHANGED <<window, codec_vars, store_vars, scan_vars>>

\* MainWindow.on_play_track -> LyricsView.set_track_lyrics
SetTrackLyrics(in) ==
    /\ Handled(Event("load", 0, <<>>, 0))
    /\ SetView(set_track_lyrics(View, in.txt, in.lrc, in.instrumental))
    /\ UNCHANGED position

\* Player.positionChanged -> LyricsView.on_player_position
OnPlayerPosition(ms) ==
    /\ Handled(Event("position", 0, <<>>, ms))
    /\ position' = <<ms>>
    /\ SetView(on_player_position(View, ms))

\* the user makes row i current
SelectRow(i) ==
    /\ mode = "synced"
    /\ i \in 1..Len(rows)
    /\ i # cur
    /\ Handled(Event("select", i, <<>>, 0))
    /\ SetView([View EXCEPT !.cur = i])
    /\ UNCHANGED position

\* the user commits text s in the time cell of row i: itemChanged(item, 0)
EditTime(i, s) ==
    /\ mode = "synced"
    /\ i \in 1..Len(rows)
    /\ s # rows[i].tag
    /\ Handled(Event("edit_time", i, s, 0))
    /\ SetView(on_synced_item_changed([View EXCEPT !.rows[i].tag = s, !.cur = i], i))
    /\ UNCHANGED position

\* the user commits text s in the text cell of row i: itemChanged(item, 1)
EditText(i, s) ==
    /\ mode = "synced"
    /\ i \in 1..Len(rows)
    /\ s # rows[i].text
    /\ Handled(Event("edit_text", i, s, 0))
    /\ SetView(on_synced_item_changed([View EXCEPT !.rows[i].text = s, !.cur = i], i))
    /\ UNCHANGED position

AddClicked ==
    /\ edit_enabled
    /\ Handled(Event("add", cur, <<>>, 0))
    /\ SetView(add_clicked(View, position))
    /\ UNCHANGED position

DeleteClicked ==
    /\ edit_enabled
    /\ Handled(Event("delete", cur, <<>>, 0))
    /\ \E c \in 0..Len(rows) :
          /\ c <= Len(delete_clicked(View, c).rows)
          /\ (cur = 0 => c = 0)
          /\ SetView(delete_clicked(View, c))
    /\ UNCHANGED position

ShiftAll(delta_ms) ==
    /\ edit_enabled
    /\ Handled(Event("shift_all", 0, <<>>, delta_ms))
    /\ SetView(shift_all(View, delta_ms))
    /\ UNCHANGED position

SaveClicked ==
    /\ edit_enabled
    /\ Handled(Event("save", 0, <<>>, 0))
    /\ SetView(save_clicked(View))
    /\ UNCHANGED position

RevertClicked ==
    /\ edit_enabled
    /\ Handled(Event("revert", 0, <<>>, 0))
    /\ SetView(revert_clicked(View))
    /\ UNCHANGED position

EditNext ==
    \/ \E in \in LoadInputs : SetTrackLyrics(in)
    \/ \E ms \in Positions : OnPlayerPosition(ms)
    \/ \E i \in 1..Len(rows) : SelectRow(i)
    \/ \E i \in 1..Len(rows), s \in EditTags : EditTime(i, s)
    \/ \E i \in 1..Len(rows), s \in EditTexts : EditText(i, s)
    \/ AddClicked
    \/ DeleteClicked
    \/ \E d \in Deltas : ShiftAll(d)
    \/ SaveClicked
    \/ RevertClicked

(***************************************************************************)
(* Store operations and their callers.                                     *)
(***************************************************************************)
StoreInit ==
    /\ tracks = <<>>
    /\ artists = <<>>
    /\ albums = <<>>
    /\ dblast = [op |-> "init", ids |-> {}]
    /\ directories = <<>>
    /\ library_init = FALSE
    /\ user_version = CURRENT_DB_VERSION
    /\ applied = <<>>
    /\ opens = 1
    /\ schema = 1..CURRENT_DB_VERSION

Ids == 1..MaxTracks

\* a scan commits the track extracted from the next walked path
AddTrack(f) ==
    /\ Len(tracks) < MaxTracks
    /\ LET track == new_fs_track_from_path(Len(tracks) + 1, f).track
       IN  /\ artists' = add_track_artist(artists, track)
           /\ albums' = add_track_album(albums, track)
           /\ tracks' = add_track(tracks, artists, albums, track)
    /\ dblast' = [op |-> "add_track", ids |-> {NextRowId(tracks)}]
    /\ UNCHANGED <<schema_vars, codec_vars, view_vars, scan_vars>>

\* a rescan starts: clean_library
CleanLibrary ==
    /\ tracks # <<>>
    /\ tracks' = clean_library(tracks)
    /\ albums' = clean_library(albums)
    /\ artists' = clean_library(artists)
    /\ dblast' = [op |-> "clean_library", ids |-> {}]
    /\ UNCHANGED <<schema_vars, codec_vars, view_vars, scan_vars>>

DownloadRun(track_id, synced, plain) ==
    /\ tracks' = download_run(tracks, track_id, synced, plain)
    /\ dblast' = [op |-> "download", ids |-> {track_id}]
    /\ UNCHANGED <<artists, albums, schema_vars, codec_vars, view_vars, scan_vars>>

SaveRequested(track_id, lrc, txt) ==
    /\ tracks' = on_lyrics_save_requested(tracks, track_id, lrc, txt)
    /\ dblast' = [op |-> "save", ids |-> {track_id}]
    /\ UNCHANGED <<artists, albums, schema_vars, codec_vars, view_vars, scan_vars>>

UpdateTrackInstrumental(track_id) ==
    /\ tracks' = update_track_instrumental(tracks, track_id)
    /\ dblast' = [op |-> "update_track_instrumental", ids |-> {track_id}]
    /\ UNCHANGED <<artists, albums, schema_vars, codec_vars, view_vars, scan_vars>>

MarkTracksInstrumental(track_ids) ==
    /\ tracks' = mark_tracks_instrumental(tracks, track_ids)
    /\ dblast' = [op |-> "mark", ids |-> track_ids]
    /\ UNCHANGED <<artists, albums, schema_vars, codec_vars, view_vars, scan_vars>>

UnmarkTracksInstrumental(track_ids) ==
    /\ tracks' = unmark_tracks_instrumental(tracks, track_ids)
    /\ dblast' = [op |-> "unmark", ids |-> track_ids]
    /\ UNCHANGED <<artists, albums, schema_vars, codec_vars, view_vars, scan_vars>>

\* mark_tracks_instrumental raises from inside its transaction
MarkTracksInstrumentalRaises(track_ids, k) ==
    /\ track_ids # {}
    /\ k \in 1..(Cardinality(track_ids) + 1)
    /\ tracks' = mark_tracks_instrumental_raising(tracks, track_ids, k)
    /\ dblast' = [op |-> "mark_raised", ids |-> track_ids, failed_at |-> k]
    /\ UNCHANGED <<artists, albums, schema_vars, codec_vars, view_vars, scan_vars>>

\* unmark_tracks_instrumental raises from inside its transaction
UnmarkTracksInstrumentalRaises(track_ids, k) ==
    /\ track_ids # {}
    /\ k \in 1..(Cardinality(track_ids) + 1)
    /\ tracks' = unmark_tracks_instrumental_raising(tracks, track_ids, k)
    /\ dblast' = [op |-> "unmark_raised", ids |-> track_ids, failed_at |-> k]
    /\ UNCHANGED <<artists, albums, schema_vars, codec_vars, view_vars, scan_vars>>

StoreNext ==
    \/ \E f \in Files : AddTrack(f)
    \/ CleanLibrary
    \/ \E id \in Ids, sy \in RemoteSynced, pl \in RemotePlain : DownloadRun(id, sy, pl)
    \/ \E id \in Ids, sv \in SaveInputs : SaveRequested(id, sv[1], sv[2])
    \/ \E id \in Ids : UpdateTrackInstrumental(id)
    \/ \E ids \in SUBSET Ids : MarkTracksInstrumental(ids)
    \/ \E ids \in SUBSET Ids : UnmarkTracksInstrumental(ids)
    \/ \E ids \in SUBSET Ids, k \in 1..(MaxTracks + 1) : MarkTracksInstrumentalRaises(ids, k)
    \/ \E ids \in SUBSET Ids, k \in 1..(MaxTracks + 1) : UnmarkTracksInstrumentalRaises(ids, k)

(***************************************************************************)
(* Opening a store file (main.py: initialize_database at start-up).  The   *)
(* file was written by a build whose schema version is user_version; a new *)
(* file has user_version 0 and no table.                                   *)
(***************************************************************************)
D_music == "/m"

\* the libraries an earlier run left: no track, one track, two tracks of two artists
StoredFiles ==
    {<<>>, <<[OkFile EXCEPT !.lrc_embedded = L_la]>>,
     <<[OkFile EXCEPT !.artist = T_a], [OkFile EXCEPT !.artist = T_b, !.album = T_la]>>}

ExtractAll(files) == [k \in 1..Len(files) |-> new_fs_track_from_path(k, files[k]).track]

MigrateInit ==
    /\ user_version \in 0..MaxStoredVersion
    /\ applied = <<>>
    /\ opens = 0
    /\ schema = 1..Min(user_version, CURRENT_DB_VERSION)
    /\ dblast = [op |-> "init", ids |-> {}]
    /\ \E files \in StoredFiles :
           /\ user_version = 0 => files = <<>>
           /\ tracks = add_tracks(<<>>, <<>>, <<>>, ExtractAll(files))
           /\ artists = add_tracks_artists(<<>>, ExtractAll(files))
           /\ albums = add_tracks_albums(<<>>, ExtractAll(files))
    /\ directories \in (IF user_version = 0 THEN {<<>>} ELSE {<<>>, <<D_music>>})
    /\ library_init \in (IF user_version = 0 THEN {FALSE} ELSE BOOLEAN)

SetStore(D) ==
    /\ tracks' = D.tracks
    /\ artists' = D.artists
    /\ albums' = D.albums
    /\ directories' = D.directories
    /\ library_init' = D.library_init
    /\ user_version' = D.user_version
    /\ applied' = D.applied
    /\ schema' = D.schema

\* initialize_database on the store file; dblast keeps the ids of the tracks before
OpenStore ==
    /\ opens < MaxOpens
    /\ opens' = opens + 1
    /\ SetStore(initialize_database(Store, 0))
    /\ dblast' = [op |-> "open", ids |-> {tracks[k].id : k \in 1..Len(tracks)}]
    /\ UNCHANGED <<codec_vars, view_vars, scan_vars>>

\* initialize_database on the store file when block j of the upgrade raises: the
\* exception leaves initialize_database and the start-up ends
OpenStoreRaises(j) ==
    /\ opens < MaxOpens
    /\ user_version < CURRENT_DB_VERSION
    /\ step_due(user_version, j)
    /\ opens' = opens + 1
    /\ SetStore(initialize_database(Store, j))
    /\ dblast' = [op |-> "open_raised", ids |-> {tracks[k].id : k \in 1..Len(tracks)}]
    /\ UNCHANGED <<codec_vars, view_vars, scan_vars>>

MigrateNext ==
    \/ OpenStore
    \/ \E j \in 1..CURRENT_DB_VERSION : OpenStoreRaises(j)

(***************************************************************************)
(* LibraryScanner.run.                                                     *)
(***************************************************************************)
FileCounts == {0, 1, 2, BatchSize, BatchSize + 1, MaxFiles}

\* walked path lists with at most one file whose extraction fails
Walks ==
    {[k \in 1..n |-> OkFile] : n \in FileCounts}
    \cup {[k \in 1..n |-> IF k = bad THEN BadFile(kind) ELSE OkFile] :
            n \in FileCounts \ {0}, bad \in {1, 2, BatchSize}, kind \in {"none", "raise"}}

\* the music folders of the nested case: /m holds the audio files 1, 2 and 3, its
\* subfolder /m/r holds file 2; os.walk(root) yields every file below root
FilesBelow(root) ==
    IF root = D_music THEN <<1, 2, 3>> ELSE IF root = "/m/r" THEN <<2>> ELSE <<>>

\* lists of music folders the folders dialog stores: add_folder refuses a path equal
\* to a listed one, and accepts a folder inside a listed one
DirectoryLists == {<<D_music>>, <<"/m/r">>, <<D_music, "/m/r">>, <<"/m/r", D_music>>}

\* iter_audio_paths(directories): the files below each root, root after root
RECURSIVE iter_audio_paths(_)
iter_audio_paths(dirs) ==
    IF dirs = <<>> THEN <<>> ELSE FilesBelow(Head(dirs)) \o iter_audio_paths(Tail(dirs))

\* what the files of the music folders hold: 1 and 3 are of one artist, 2 and 3 of
\* albums of one name by different artists
TreeFile(path) ==
    IF path = 1 THEN [OkFile EXCEPT !.artist = T_a, !.lrc_embedded = L_la]
    ELSE IF path = 2 THEN [OkFile EXCEPT !.artist = T_b, !.album = T_la, !.txt_sidecar = T_la]
    ELSE [OkFile EXCEPT !.artist = T_a, !.album = T_la]

\* the library an earlier scan and later marking left in the store
PriorFiles == {<<>>, <<[OkFile EXCEPT !.artist = T_la, !.lrc_embedded = L_la], OkFile>>}

ScanStoreInit ==
    /\ \E files \in PriorFiles :
           /\ tracks = mark_tracks_instrumental(add_tracks(<<>>, <<>>, <<>>, ExtractAll(files)), {2})
           /\ artists = add_tracks_artists(<<>>, ExtractAll(files))
           /\ albums = add_tracks_albums(<<>>, ExtractAll(files))
    /\ dblast = [op |-> "init", ids |-> {}]
    /\ library_init = FALSE
    /\ user_version = CURRENT_DB_VERSION
    /\ applied = <<>>
    /\ opens = 1
    /\ schema = 1..CURRENT_DB_VERSION

ScanIdle ==
    /\ paths = <<>>
    /\ fs = <<>>
    /\ scan_pc = "idle"
    /\ btn_refresh = TRUE
    /\ in_flight = 0
    /\ handled = 0
    /\ scan_i = 1
    /\ batch = <<>>
    /\ scanned = 0
    /\ progress = <<>>
    /\ finished = <<>>
    /\ futures = {}

ScanInit ==
    /\ \/ /\ fs \in Walks
          /\ paths = [k \in 1..Len(fs) |-> k]
          /\ directories = <<"/w">>       \* one folder, which holds the drawn files
       \/ \E dirs \in DirectoryLists :
              /\ directories = dirs
              /\ paths = iter_audio_paths(dirs)
              /\ fs = [k \in 1..Len(iter_audio_paths(dirs)) |->
                            TreeFile(iter_audio_paths(dirs)[k])]
    /\ scan_pc = "idle"
    /\ btn_refresh = TRUE
    /\ in_flight = 0
    /\ handled = 0
    /\ scan_i = 1
    /\ batch = <<>>
    /\ scanned = 0
    /\ progress = <<>>
    /\ finished = <<>>
    /\ futures = {}

total == Len(fs)

\* refresh_library that leaves the refresh button enabled
refresh_library_leaves_trigger(enabled) == enabled

\* refresh_library's btn_refresh.setEnabled(False)
refresh_library_trigger(enabled) == FALSE

\* MainWindow.refresh_library, run by a click on btn_refresh (a disabled button emits
\* no click) with music folders configured: a new LibraryScanner is started and the
\* button disabled.  Without folders it notifies and returns.
RefreshLibrary ==
    /\ btn_refresh
    /\ directories # <<>>
    /\ scan_pc' = "started"
    /\ scan_i' = 1
    /\ scanned' = 0
    /\ batch' = <<>>
    /\ progress' = <<>>
    /\ finished' = <<>>
    /\ handled' = 0
    /\ in_flight' = in_flight + 1
    /\ btn_refresh' = refresh_library_trigger(btn_refresh)
    /\ UNCHANGED <<futures, paths, fs, codec_vars, view_vars, store_vars>>

\* MainWindow._scan_finished(ok, msg), run for a queued finished signal
ScanFinished ==
    /\ handled < Len(finished)
    /\ handled' = handled + 1
    /\ in_flight' = in_flight - 1
    /\ btn_refresh' = TRUE
    /\ UNCHANGED <<futures, paths, fs, scan_pc, scan_i, batch, scanned, progress, finished,
                   codec_vars, view_vars, store_vars>>

\* run(), up to the loop: iter_audio_paths, connect, clean_library
ScanStart ==
    /\ scan_pc = "started"
    /\ scan_pc' = "extracting"
    /\ tracks' = clean_library(tracks)
    /\ albums' = clean_library(albums)
    /\ artists' = clean_library(artists)
    /\ UNCHANGED <<trigger_vars, futures, paths, fs, scan_i, scanned, batch, progress, finished,
                   codec_vars, view_vars, dblast, schema_vars>>

\* a commit in the loop that reports nothing
commit_report_none(n) == <<>>

\* the progress_signal.emit(scanned, total) after add_tracks in the loop
commit_report(n) == <<[scanned |-> n, total |-> total]>>

\* one iteration of "for p in paths" in which new_fs_track_from_path returns
ScanStep ==
    /\ scan_pc = "extracting"
    /\ scan_i <= total
    /\ LET r       == new_fs_track_from_path(paths[scan_i], fs[scan_i])
           batch1  == IF r.result = "track" THEN Append(batch, r.track) ELSE batch
           commit  == Len(batch1) >= BatchSize
           report1 == IF commit THEN commit_report(scanned + 1) ELSE <<>>
           report2 == IF (scanned + 1) % ProgressEvery = 0
                      THEN <<[scanned |-> scanned + 1, total |-> total]>> ELSE <<>>
       IN  /\ r.result # "raise"
           /\ scanned' = scanned + 1
           /\ batch' = IF commit THEN <<>> ELSE batch1
           /\ tracks' = IF commit THEN add_tracks(tracks, artists, albums, batch1) ELSE tracks
           /\ artists' = IF commit THEN add_tracks_artists(artists, batch1) ELSE artists
           /\ albums' = IF commit THEN add_tracks_albums(albums, batch1) ELSE albums
           /\ progress' = progress \o report1 \o report2
    /\ scan_i' = scan_i + 1
    /\ UNCHANGED <<trigger_vars, futures, paths, fs, scan_pc, finished, codec_vars, view_vars, dblast, schema_vars>>

\* run() raises before the loop (the walk, sqlite3.connect or clean_library raises):
\* the except branch; nothing was deleted
ScanStartFail ==
    /\ scan_pc = "started"
    /\ scan_pc' = "failed"
    /\ finished' = Append(finished, [ok |-> FALSE, message |-> "Scan failed: ..."])
    /\ UNCHANGED <<trigger_vars, futures, paths, fs, scan_i, scanned, batch, progress,
                   codec_vars, view_vars, store_vars>>

\* add_tracks(db, batch) raises at its j-th track, in the loop or after it: the
\* tracks before the j-th are committed (add_track commits each), then the except
\* branch
ScanCommitFail(j) ==
    /\ scan_pc = "extracting"
    /\ LET in_loop == scan_i <= total
           r       == new_fs_track_from_path(paths[scan_i], fs[scan_i])
           batch1  == IF ~in_loop THEN batch
                      ELSE IF r.result = "track" THEN Append(batch, r.track) ELSE batch
       IN  /\ in_loop => r.result # "raise" /\ Len(batch1) >= BatchSize
           /\ ~in_loop => batch # <<>>
           /\ j <= Len(batch1)
           /\ tracks' = add_tracks(tracks, artists, albums, SubSeq(batch1, 1, j - 1))
           /\ artists' = add_tracks_artists(artists, SubSeq(batch1, 1, j - 1))
           /\ albums' = add_tracks_albums(albums, SubSeq(batch1, 1, j - 1))
           /\ batch' = batch1
           /\ scanned' = IF in_loop THEN scanned + 1 ELSE scanned
    /\ finished' = Append(finished, [ok |-> FALSE, message |-> "Scan failed: ..."])
    /\ scan_pc' = "failed"
    /\ UNCHANGED <<trigger_vars, futures, paths, fs, scan_i, progress, codec_vars, view_vars, dblast, schema_vars>>

\* the except branch as it would be inside the loop: finished(False, ...) is emitted
\* and the run goes on
ScanFail_continues ==
    /\ scan_pc = "extracting"
    /\ scan_i <= total
    /\ new_fs_track_from_path(paths[scan_i], fs[scan_i]).result = "raise"
    /\ finished' = Append(finished, [ok |-> FALSE, message |-> "Scan failed: ..."])
    /\ UNCHANGED <<trigger_vars, futures, paths, fs, scan_pc, scan_i, batch, scanned, progress,
                   codec_vars, view_vars, store_vars>>

\* the iteration in which new_fs_track_from_path raises: run()'s except branch
ScanFail ==
    /\ scan_pc = "extracting"
    /\ scan_i <= total
    /\ new_fs_track_from_path(paths[scan_i], fs[scan_i]).result = "raise"
    /\ finished' = Append(finished, [ok |-> FALSE, message |-> "Scan failed: ..."])
    /\ scan_pc' = "failed"
    /\ UNCHANGED <<trigger_vars, futures, paths, fs, scan_i, batch, scanned, progress, codec_vars, view_vars, store_vars>>

\* after the loop: the last batch, the last progress report, finished(True)
ScanFinish ==
    /\ scan_pc = "extracting"
    /\ scan_i > total
    /\ tracks' = IF batch # <<>> THEN add_tracks(tracks, artists, albums, batch) ELSE tracks
    /\ artists' = IF batch # <<>> THEN add_tracks_artists(artists, batch) ELSE artists
    /\ albums' = IF batch # <<>> THEN add_tracks_albums(albums, batch) ELSE albums
    /\ progress' = Append(progress, [scanned |-> scanned, total |-> total])
    /\ finished' = Append(finished, [ok |-> TRUE, message |-> "Library scanning complete!"])
    /\ scan_pc' = "done"
    /\ UNCHANGED <<trigger_vars, futures, paths, fs, scan_i, batch, scanned, codec_vars, view_vars, dblast, schema_vars>>

ScanNext ==
    \/ RefreshLibrary
    \/ ScanFinished
    \/ ScanStart
    \/ ScanStartFail
    \/ ScanStep
    \/ ScanFail
    \/ \E j \in {1, 2} : ScanCommitFail(j)
    \/ ScanFinish

(***************************************************************************)
(* Specifications.  Spec is the whole program; each Spec<Part> runs one    *)
(* part with the others at rest.                                           *)
(***************************************************************************)
Init == CodecInit /\ ViewInit /\ StoreInit /\ ScanInit
Next ==
    CodecNext \/ StampNext \/ NormNext \/ EditNext \/ StoreNext \/ MigrateNext \/ ScanNext
Spec == Init /\ [][Next]_vars

InitCodec == CodecInit /\ ViewInit /\ StoreInit /\ ScanIdle
SpecCodec == InitCodec /\ [][CodecNext]_vars

InitStamp == PairsIdle /\ StampInit /\ NormIdle /\ FnIdle /\ ViewInit /\ StoreInit /\ ScanIdle
SpecStamp == InitStamp /\ [][StampNext]_vars

InitFn == PairsIdle /\ StampIdle /\ NormIdle /\ FnInit /\ ViewInit /\ StoreInit /\ ScanIdle
SpecFn == InitFn /\ [][FnNext]_vars

InitNorm == PairsIdle /\ StampIdle /\ NormInit /\ FnIdle /\ ViewInit /\ StoreInit /\ ScanIdle
SpecNorm == InitNorm /\ [][NormNext]_vars

InitEdit == CodecIdle /\ ViewInit /\ StoreInit /\ ScanIdle
SpecEdit == InitEdit /\ [][EditNext]_vars

InitStore == CodecIdle /\ ViewInit /\ StoreInit /\ ScanIdle
SpecStore == InitStore /\ [][StoreNext]_vars

(***************************************************************************)
(* The thread-pool loader (library/fs_track.py): load_tracks_from_         *)
(* directories hands the walked paths, in batches of up to BatchSize, to   *)
(* load_tracks_from_entry_batch, which submits one FsTrack.new_from_path   *)
(* per path to a ThreadPoolExecutor and collects the results with          *)
(* as_completed, that is in the order the extractions complete.  No        *)
(* handler of the application calls it; the model runs it by itself over a *)
(* walk of one folder, with add_tracks as its commit callback.             *)
(***************************************************************************)
\* FsTrack.new_from_path(path): "none" when the file cannot be parsed or has no
\* title (every exception is caught), else the track; lyrics are the sidecar files
\* as read
new_from_path(path, f) ==
    LET artist == IF f.artist = NULL THEN <<>> ELSE f.artist
    IN  [result |-> IF f.audio # "ok" \/ f.title = NULL \/ f.title = <<>>
                    THEN "none" ELSE "track",
         track  |-> [file_path  |-> path,
                     artist     |-> artist,
                     album      |-> IF f.album = NULL THEN <<>> ELSE f.album,
                     album_artist |-> IF f.albumartist = NULL THEN artist ELSE f.albumartist,
                     txt_lyrics |-> f.txt_sidecar,
                     lrc_lyrics |-> f.lrc_sidecar]]

\* the walks of one folder: files with a title and files without
PoolWalks == UNION {[1..n -> {OkFile, [OkFile EXCEPT !.title = NULL]}] : n \in 0..MaxPoolFiles}

PoolInit ==
    /\ fs \in PoolWalks
    /\ paths = [k \in 1..Len(fs) |-> k]
    /\ directories = <<"/w">>
    /\ scan_pc = "batching"
    /\ btn_refresh = TRUE
    /\ in_flight = 0
    /\ handled = 0
    /\ scan_i = 1
    /\ batch = <<>>
    /\ scanned = 0
    /\ progress = <<>>
    /\ finished = <<>>
    /\ futures = {}

PoolStoreInit ==
    /\ tracks = <<>>
    /\ artists = <<>>
    /\ albums = <<>>
    /\ dblast = [op |-> "init", ids |-> {}]
    /\ library_init = FALSE
    /\ user_version = CURRENT_DB_VERSION
    /\ applied = <<>>
    /\ opens = 1
    /\ schema = 1..CURRENT_DB_VERSION

\* index in paths of the last entry of the batch that starts at scan_i
BatchEnd == IF scan_i + BatchSize - 1 < total THEN scan_i + BatchSize - 1 ELSE total

\* as_completed(futures): the futures that may be yielded next, any pending one
as_completed(fut) == fut

\* the entry batch is full or the walk has ended: load_tracks_from_entry_batch
\* submits one extraction per entry
PoolSubmit ==
    /\ scan_pc = "batching"
    /\ scan_i <= total
    /\ futures' = scan_i..BatchEnd
    /\ batch' = <<>>
    /\ scan_pc' = "pooled"
    /\ UNCHANGED <<trigger_vars, paths, fs, scan_i, scanned, progress, finished,
                   codec_vars, view_vars, store_vars>>

\* "for future in as_completed(futures)": the next completed extraction, its track
\* appended when there is one
PoolYield(p) ==
    /\ scan_pc = "pooled"
    /\ p \in as_completed(futures)
    /\ LET r == new_from_path(paths[p], fs[p])
       IN  batch' = IF r.result = "track" THEN Append(batch, r.track) ELSE batch
    /\ futures' = futures \ {p}
    /\ UNCHANGED <<trigger_vars, paths, fs, scan_pc, scan_i, scanned, progress, finished,
                   codec_vars, view_vars, store_vars>>

\* every future was yielded: the batch's tracks go to the commit callback, the
\* entries are counted and a progress report is made
PoolCommit ==
    /\ scan_pc = "pooled"
    /\ futures = {}
    /\ tracks' = add_tracks(tracks, artists, albums, batch)
    /\ artists' = add_tracks_artists(artists, batch)
    /\ albums' = add_tracks_albums(albums, batch)
    /\ scanned' = scanned + (BatchEnd - scan_i + 1)
    /\ progress' = Append(progress, [scanned |-> scanned + (BatchEnd - scan_i + 1),
                                      total |-> total])
    /\ scan_i' = BatchEnd + 1
    /\ batch' = <<>>
    /\ scan_pc' = "batching"
    /\ UNCHANGED <<trigger_vars, futures, paths, fs, finished, codec_vars, view_vars,
                   dblast, schema_vars>>

\* the walk has ended and nothing is left to commit: the loader returns
PoolReturn ==
    /\ scan_pc = "batching"
    /\ scan_i > total
    /\ scan_pc' = "done"
    /\ UNCHANGED <<trigger_vars, futures, paths, fs, scan_i, batch, scanned, progress,
                   finished, codec_vars, view_vars, store_vars>>

PoolNext ==
    \/ PoolSubmit
    \/ \E p \in 1..MaxPoolFiles : PoolYield(p)
    \/ PoolCommit
    \/ PoolReturn

InitPool == CodecIdle /\ ViewInit /\ PoolStoreInit /\ PoolInit
SpecPool == InitPool /\ [][PoolNext]_vars

InitMigrate == CodecIdle /\ ViewInit /\ MigrateInit /\ ScanIdle
SpecMigrate == InitMigrate /\ [][MigrateNext]_vars

InitScan == CodecIdle /\ ViewInit /\ ScanStoreInit /\ ScanInit
SpecScan == InitScan /\ [][ScanNext]_vars

\* a step of the thread that runs run(): the loop goes to the next path or the run
\* ends
RunAdvances ==
    /\ scan_pc = "extracting"
    /\ scan_i' \in {scan_i, scan_i + 1}
    /\ scan_pc' \in {"extracting", "done", "failed"}

\* the scanner thread, once started, keeps running
SpecScanFair == InitScan /\ [][ScanNext]_vars /\ WF_<<scan_i, scan_pc>>(RunAdvances)

(***************************************************************************)
(* The main window (ui/main_window.py) with the lyrics editor, the lyrics  *)
(* download worker (ui/workers/lyrics_download_worker.py, a QThread with   *)
(* its own connection to the store file) and the library scanner.  The     *)
(* store holds what a scan of an earlier list of music folders left; the   *)
(* folders configured now may be another list of DirectoryLists.           *)
(***************************************************************************)
\* answers of the LRCLIB lookup: synced and plain lyrics, plain only, nothing
DownloadAnswers == {<<L_la, NULL>>, <<NULL, T_b>>, <<NULL, NULL>>}

\* the tracks iter_audio_paths and new_fs_track_from_path give for the folders dirs
ScannedTracks(dirs) ==
    LET ps == iter_audio_paths(dirs)
    IN  [k \in 1..Len(ps) |-> new_fs_track_from_path(ps[k], TreeFile(ps[k])).track]

WindowStoreInit ==
    /\ \E dirs \in DirectoryLists :
           /\ tracks = add_tracks(<<>>, <<>>, <<>>, ScannedTracks(dirs))
           /\ artists = add_tracks_artists(<<>>, ScannedTracks(dirs))
           /\ albums = add_tracks_albums(<<>>, ScannedTracks(dirs))
    /\ dblast = [op |-> "init", ids |-> {}]
    /\ library_init = TRUE
    /\ user_version = CURRENT_DB_VERSION
    /\ applied = <<>>
    /\ opens = 1
    /\ schema = 1..CURRENT_DB_VERSION

WindowScanInit ==
    /\ \E dirs \in DirectoryLists :
           /\ directories = dirs
           /\ paths = iter_audio_paths(dirs)
           /\ fs = [k \in 1..Len(iter_audio_paths(dirs)) |-> TreeFile(iter_audio_paths(dirs)[k])]
    /\ scan_pc = "idle"
    /\ btn_refresh = TRUE
    /\ in_flight = 0
    /\ handled = 0
    /\ scan_i = 1
    /\ batch = <<>>
    /\ scanned = 0
    /\ progress = <<>>
    /\ finished = <<>>
    /\ futures = {}

\* get_track_by_id(db, track_id): <<row>>, or <<>> when fetchone() gives None (the
\* Track(...) construction then raises)
get_track_by_id(T, track_id) == SelectSeq(T, LAMBDA r : r.id = track_id)

\* lyrics_view.set_track_lyrics(...) with the columns of a row
load_track(V, r) == set_track_lyrics(V, r.txt_lyrics, r.lrc_lyrics, r.instrumental)

\* a user event of the window: counted, so that the runs are bounded
WindowEvent(name) == [window EXCEPT !.ev = name, !.wops = @ + 1]

\* MainWindow.on_play_track(track_id) for a row of the track list: player.play_file
\* makes the track player.track, then the editor is loaded with its lyrics
OnPlayTrack(track_id) ==
    /\ window.wops < MaxWindowOps
    /\ get_track_by_id(tracks, track_id) # <<>>
    /\ SetView(load_track(View, get_track_by_id(tracks, track_id)[1]))
    /\ window' = [WindowEvent("play") EXCEPT !.player_track = track_id,
                                             !.shown_track = track_id]
    /\ UNCHANGED <<position, nops, last, codec_vars, store_vars, scan_vars>>

\* MainWindow.on_download_lyrics(track_id): a LyricsDownloadWorker is started
OnDownloadLyrics(track_id) ==
    /\ window.wops < MaxWindowOps
    /\ window.worker.pc = "idle"
    /\ get_track_by_id(tracks, track_id) # <<>>
    /\ window' = [WindowEvent("download") EXCEPT
                     !.worker = [WorkerIdle EXCEPT !.pc = "started", !.track_id = track_id]]
    /\ UNCHANGED <<rows, times, dirty, current_index, cur, mode, edit_enabled,
                   last_loaded_lrc, last_loaded_txt, position, nops, last,
                   codec_vars, store_vars, scan_vars>>

\* LyricsDownloadWorker.run up to the lookup: get_track_by_id(db, self.track_id) and
\* the title, artist, album and duration of that row (the file the row describes);
\* a missing row raises, and the except branch emits finished(False, ...)
WorkerRead ==
    /\ window.worker.pc = "started"
    /\ LET r == get_track_by_id(tracks, window.worker.track_id)
       IN  window' = [window EXCEPT
                         !.ev = "read",
                         !.worker.pc = IF r = <<>> THEN "emitted" ELSE "querying",
                         !.worker.path = IF r = <<>> THEN 0 ELSE r[1].file_path]
    /\ UNCHANGED <<rows, times, dirty, current_index, cur, mode, edit_enabled,
                   last_loaded_lrc, last_loaded_txt, position, nops, last,
                   codec_vars, store_vars, scan_vars>>

\* LyricsDownloadWorker.run from the answer of api.get_lyrics on: the update of the
\* row whose id is self.track_id, then finished(ok, msg, track_id)
WorkerWrite(answer) ==
    /\ window.worker.pc = "querying"
    /\ tracks' = download_run(tracks, window.worker.track_id, answer[1], answer[2])
    /\ dblast' = [op |-> "download", ids |-> {window.worker.track_id}]
    /\ window' = [window EXCEPT !.ev = "write", !.worker.pc = "emitted",
                                !.worker.synced = answer[1], !.worker.plain = answer[2]]
    /\ UNCHANGED <<rows, times, dirty, current_index, cur, mode, edit_enabled,
                   last_loaded_lrc, last_loaded_txt, position, nops, last,
                   artists, albums, schema_vars, codec_vars, scan_vars>>

\* MainWindow._on_lyrics_download_finished(ok, msg, track_id): the editor is loaded
\* with the lyrics of the row track_id; when the row is gone the exception is passed
OnLyricsDownloadFinished ==
    /\ window.worker.pc = "emitted"
    /\ LET r == get_track_by_id(tracks, window.worker.track_id)
       IN  /\ SetView(IF r = <<>> THEN View ELSE load_track(View, r[1]))
           /\ window' = [window EXCEPT
                            !.ev = "finished",
                            !.worker = WorkerIdle,
                            !.shown_track = IF r = <<>> THEN @ ELSE window.worker.track_id]
    /\ UNCHANGED <<position, nops, last, codec_vars, store_vars, scan_vars>>

\* the row _on_lyrics_save_requested writes to: player.track.track_id
save_target(W) == W.player_track

\* a click on Save: LyricsView._save_clicked emits saveRequested(lrc, txt), and the
\* slot MainWindow._on_lyrics_save_requested runs inside the emit: without
\* player.track it notifies and returns; else it updates the row of
\* player.track.track_id and loads the editor from that row (a missing row raises
\* in get_track_by_id, which ends the slot); then _save_clicked stores what it
\* emitted.  The second slot, _on_embed_requested, writes the tags of the audio
\* file of player.track and no row.
OnLyricsSaveRequested ==
    /\ window.wops < MaxWindowOps
    /\ edit_enabled
    /\ save_emits(View) # NULL
    /\ LET lrc == save_emits(View)[1]
           txt == save_emits(View)[2]
           tid == save_target(window)
           T2  == IF tid = 0 THEN tracks ELSE on_lyrics_save_requested(tracks, tid, lrc, txt)
           r   == get_track_by_id(T2, tid)
           V1  == IF r = <<>> THEN View ELSE load_track(View, r[1])
       IN  /\ tracks' = T2
           /\ SetView([V1 EXCEPT !.dirty = FALSE, !.last_loaded_lrc = lrc,
                                 !.last_loaded_txt = txt])
           /\ window' = [WindowEvent("save") EXCEPT
                            !.shown_track = IF r = <<>> THEN @ ELSE tid]
           /\ dblast' = [op |-> "save", ids |-> {tid}]
    /\ UNCHANGED <<position, nops, last, artists, albums, schema_vars, codec_vars, scan_vars>>

WindowNext ==
    \/ \E k \in 1..Len(tracks) : OnPlayTrack(tracks[k].id)
    \/ \E k \in 1..Len(tracks) : OnDownloadLyrics(tracks[k].id)
    \/ WorkerRead
    \/ \E answer \in DownloadAnswers : WorkerWrite(answer)
    \/ OnLyricsDownloadFinished
    \/ OnLyricsSaveRequested
    \/ RefreshLibrary
    \/ ScanStart
    \/ ScanStep
    \/ ScanFinish
    \/ ScanFinished

InitWindow == CodecIdle /\ ViewInit /\ WindowStoreInit /\ WindowScanInit
SpecWindow == InitWindow /\ [][WindowNext]_vars

(***************************************************************************)
(* Properties of the LRC codec, under SpecCodec.                           *)
(***************************************************************************)
\* a text the codec carries unchanged: not empty, no white space at either
\* end, no line break, no substring of the form [digits:digits(.digits)]
CleanText(t) ==
    /\ t # <<>>
    /\ t[1] \notin Whitespace
    /\ t[Len(t)] \notin Whitespace
    /\ \A i \in 1..Len(t) : t[i] \notin LineBreaks /\ TsMatchAt(t, i).len = 0

\* C1 as stated: for every sequence of (time_ms >= 0, non-empty text) pairs
\* sorted ascending by time, parsing the serialized pairs yields the pairs.
RoundTripAnyPairs ==
    codec_pc = "parsed" =>
        ((/\ \A k \in 1..Len(pairs) : pairs[k].ms >= 0 /\ pairs[k].text # <<>>
          /\ SortedByMs(pairs))
         => parsed = pairs)

\* C1 amended: for every sequence of pairs sorted ascending by time whose times
\* are non-negative multiples of 10 ms and whose texts are clean (CleanText),
\* parsing the serialized pairs yields exactly the same sequence of pairs.
RoundTripCleanPairs ==
    codec_pc = "parsed" =>
        ((/\ \A k \in 1..Len(pairs) :
                pairs[k].ms >= 0 /\ pairs[k].ms % 10 = 0 /\ CleanText(pairs[k].text)
          /\ SortedByMs(pairs))
         => parsed = pairs)

\* two clean pairs past the first minute with equal times came back in order
RoundTripCleanPairsWitness ==
    /\ codec_pc = "parsed"
    /\ Len(pairs) = 2
    /\ pairs[1] = [ms |-> 61500, text |-> T_b]
    /\ pairs[2] = [ms |-> 61500, text |-> T_a]
    /\ parsed = pairs

(***************************************************************************)
(* Properties of the library store, under SpecStore.                       *)
(***************************************************************************)
\* C2: every track with instrumental = true has lrc_lyrics equal to the
\* sentinel "[au: instrumental]" and NULL txt_lyrics.
InstrumentalHasSentinel ==
    \A k \in 1..Len(tracks) :
        tracks[k].instrumental =>
            tracks[k].lrc_lyrics = Sentinel /\ tracks[k].txt_lyrics = NULL

\* C3: a track whose lrc_lyrics equals the sentinel has instrumental = true.
SentinelHasInstrumental ==
    \A k \in 1..Len(tracks) :
        tracks[k].lrc_lyrics = Sentinel => tracks[k].instrumental

\* C4: after mark_tracks_instrumental(ids) every track in ids has the sentinel
\* in lrc_lyrics, NULL txt_lyrics and instrumental = true; after
\* unmark_tracks_instrumental(ids) every track in ids has instrumental = false
\* and NULL lrc_lyrics if it held the sentinel; tracks not in ids are unchanged
\* by either call.
MarkUnmarkEffect ==
    [][dblast'.op \in {"mark", "unmark"} =>
         /\ Len(tracks') = Len(tracks)
         /\ \A k \in 1..Len(tracks) :
               /\ tracks'[k].id = tracks[k].id
               /\ tracks[k].id \notin dblast'.ids => tracks'[k] = tracks[k]
               /\ (tracks[k].id \in dblast'.ids /\ dblast'.op = "mark") =>
                     /\ tracks'[k].lrc_lyrics = Sentinel
                     /\ tracks'[k].txt_lyrics = NULL
                     /\ tracks'[k].instrumental = TRUE
               /\ (tracks[k].id \in dblast'.ids /\ dblast'.op = "unmark") =>
                     /\ tracks'[k].instrumental = FALSE
                     /\ tracks[k].lrc_lyrics = Sentinel => tracks'[k].lrc_lyrics = NULL
    ]_vars

\* of two marked tracks the first was unmarked: its sentinel is gone, the
\* second still holds its own
MarkUnmarkEffectWitness ==
    /\ dblast = [op |-> "unmark", ids |-> {1}]
    /\ Len(tracks) = 2
    /\ tracks[1].id = 1
    /\ tracks[1].lrc_lyrics = NULL
    /\ tracks[1].instrumental = FALSE
    /\ tracks[2].lrc_lyrics = Sentinel
    /\ tracks[2].txt_lyrics = NULL
    /\ tracks[2].instrumental = TRUE

\* C10: the filter with synced, plain and instrumental off and no_lyrics on
\* returns exactly the tracks whose txt_lyrics and lrc_lyrics are both NULL and
\* whose instrumental flag is false (get_track_ids and get_track_rows alike).
NoLyricsFilterExact ==
    LET expected == {tracks[k].id : k \in {j \in 1..Len(tracks) :
                        /\ tracks[j].txt_lyrics = NULL
                        /\ tracks[j].lrc_lyrics = NULL
                        /\ tracks[j].instrumental = FALSE}}
    IN  /\ get_track_ids(tracks, FALSE, FALSE, FALSE, TRUE) = expected
        /\ get_track_rows(tracks, FALSE, FALSE, FALSE, TRUE) = expected

(***************************************************************************)
(* Properties of the library scan, under SpecScan.                         *)
(***************************************************************************)
\* C5: a file whose extraction fails never aborts the scan: the scan does not
\* end failed, and once done the table holds a row for exactly the files whose
\* extraction succeeded.
ScanSurvivesBadFile ==
    /\ scan_pc # "failed"
    /\ scan_pc = "done" =>
          {tracks[k].file_path : k \in 1..Len(tracks)}
              = {paths[p] : p \in {q \in 1..Len(fs) : fs[q].audio = "ok"}}

(***************************************************************************)
(* Properties of the synced-lyrics edit model, under SpecEdit.             *)
(***************************************************************************)
\* C6: edit_time with a text tag_to_ms rejects changes no stored time, no text
\* and not the time index, and sets the row's displayed tag back to the
\* formatting of its stored time, whatever that time is.
RejectedTimeEditMutatesNothing ==
    [][(last'.op = "edit_time" /\ ~tag_to_ms(last'.s).ok) =>
         /\ Len(rows') = Len(rows)
         /\ \A k \in 1..Len(rows) :
               rows'[k].ms = rows[k].ms /\ rows'[k].text = rows[k].text
         /\ times' = times
         /\ rows'[last'.i].tag = ms_to_tag(rows[last'.i].ms)
    ]_vars

\* C7: every row's stored time_ms is a non-negative integer.
RowTimesNonNegative == \A k \in 1..Len(rows) : rows[k].ms \in Nat

\* C8: shift_all(delta_ms) sets every row's time to max(0, old + delta_ms),
\* keeps the number of rows, their order and their texts, and leaves the time
\* index equal to the resulting row times in row order.
ShiftAllEffect ==
    [][last'.op = "shift_all" =>
         /\ Len(rows') = Len(rows)
         /\ \A k \in 1..Len(rows) :
               /\ rows'[k].ms = IF rows[k].ms + last'.d < 0 THEN 0
                                ELSE rows[k].ms + last'.d
               /\ rows'[k].text = rows[k].text
         /\ Len(times') = Len(rows')
         /\ \A k \in 1..Len(rows') : times'[k] = rows'[k].ms
    ]_vars

\* shift_all(-200) on the times [100, 500]: [0, 300]
ShiftAllEffectWitness ==
    /\ last.op = "shift_all"
    /\ last.d = -200
    /\ Len(rows) = 2
    /\ rows[1].ms = 0 /\ rows[1].text = T_a
    /\ rows[2].ms = 300 /\ rows[2].text = T_b
    /\ times = <<0, 300>>

\* the new row an "add" step put in, the rows it kept and where
AddPlacement(base_ms) ==
    LET idx == IF cur # 0 THEN cur ELSE Len(rows)
    IN  /\ Len(rows') = Len(rows) + 1
        /\ rows'[idx + 1].ms = base_ms
        /\ \A k \in 1..Len(rows) :
              rows'[IF k <= idx THEN k ELSE k + 1] = rows[k]

\* C9 as stated: the new row's default time is the reference row's time when a
\* row is selected, else the current playback position when one is available,
\* else zero; the row goes right after the reference row, or at the end when no
\* row is selected, and the existing rows keep time, text and relative order.
AddDefaultTimeUsesPosition ==
    [][last'.op = "add" =>
         AddPlacement(IF cur # 0 THEN rows[cur].ms
                      ELSE IF position # <<>> THEN position[1] ELSE 0)
    ]_vars

\* C9 amended: the new row's default time is the reference row's time when a
\* row is selected, else zero; the row goes right after the reference row, or
\* at the end when no row is selected, and the existing rows keep time, text
\* and relative order.
AddDefaultTimeZero ==
    [][last'.op = "add" => AddPlacement(IF cur # 0 THEN rows[cur].ms ELSE 0)]_vars

\* with playback at 300 ms and no row selected, a row was appended at time 0
AddDefaultTimeZeroWitness ==
    /\ last.op = "add"
    /\ last.i = 0
    /\ position = <<300>>
    /\ Len(rows) = 3
    /\ rows[3].ms = 0
    /\ rows[1].ms = 100 /\ rows[2].ms = 500

(***************************************************************************)
(* Properties of the time cell codec, under SpecStamp.                     *)
(***************************************************************************)
\* "00:00.00"
TagOfZero == <<"0", "0", ":", "0", "0", ".", "0", "0">>

\* C11: for every ms in [0, 359999] the tag ms_to_tag writes parses back to a
\* valid time less than 10 ms away from ms, equal to ms when ms is a multiple
\* of 10; the tag of a negative time is the tag of zero.
StampPrecision ==
    /\ (stamp_pc = "round_trip" /\ stamp_in \in 0..359999) =>
          /\ stamp_out.ok
          /\ stamp_out.v <= stamp_in
          /\ stamp_in - stamp_out.v < 10
          /\ stamp_in % 10 = 0 => stamp_out.v = stamp_in
    /\ (stamp_pc \in {"formatted", "round_trip"} /\ stamp_in < 0) => stamp_tag = TagOfZero

\* 5:59.999 came back as 359990
StampPrecisionWitness ==
    /\ stamp_pc = "round_trip"
    /\ stamp_in = 359999
    /\ stamp_out = [ok |-> TRUE, v |-> 359990]

\* t is digits ":" digits, alone or followed by one of seps and 1 to 3 digits
IsShaped(t, seps) ==
    LET n1 == DigitRun(t, 1)
        c  == n1 + 1
        n2 == IF c <= Len(t) THEN DigitRun(t, c + 1) ELSE 0
        j  == c + 1 + n2
        n3 == IF j <= Len(t) THEN DigitRun(t, j + 1) ELSE 0
    IN  /\ n1 > 0
        /\ c <= Len(t)
        /\ t[c] = ":"
        /\ n2 > 0
        /\ \/ j = Len(t) + 1
           \/ j <= Len(t) /\ t[j] \in seps /\ n3 \in 1..3 /\ j + n3 = Len(t)

HasComma(t) == \E k \in 1..Len(t) : t[k] = ","

WithDot(t) == [k \in 1..Len(t) |-> IF t[k] = "," THEN "." ELSE t[k]]

\* C13 as stated: for all digit strings mm, ss and a fraction of 1 to 3 digits,
\* parsing "mm:ss,frac" is valid and gives the milliseconds of "mm:ss.frac".
CommaParsesAsDot ==
    (stamp_pc = "parsed" /\ IsShaped(stamp_tag, {","}) /\ HasComma(stamp_tag)) =>
        stamp_out.ok /\ stamp_out = tag_to_ms(WithDot(stamp_tag))

\* C13 amended: only "." is a decimal separator: for all digit strings mm, ss
\* and a fraction of 1 to 3 digits, parsing "mm:ss.frac" is valid and parsing
\* "mm:ss,frac" is invalid.
CommaIsRejected ==
    stamp_pc = "parsed" =>
        /\ (IsShaped(stamp_tag, {","}) /\ HasComma(stamp_tag)) => ~stamp_out.ok
        /\ IsShaped(stamp_tag, {"."}) => stamp_out.ok

\* "01:30,50" was parsed and found invalid
CommaIsRejectedWitness ==
    /\ stamp_pc = "parsed"
    /\ stamp_tag = <<"0", "1", ":", "3", "0", ",", "5", "0">>
    /\ ~stamp_out.ok

\* C14: every text that is not digits ":" digits, alone or followed by a
\* separator and 1 to 3 fraction digits, is invalid (a sign, an empty fraction,
\* more than 3 fraction digits, white space around the numbers).
OtherShapesAreRejected ==
    (stamp_pc = "parsed" /\ ~IsShaped(stamp_tag, {".", ","})) => ~stamp_out.ok

(***************************************************************************)
(* Properties of the search keys, under SpecNorm.                          *)
(***************************************************************************)
\* C12: prepare_input(prepare_input(s)) = prepare_input(s) for every string s,
\* and the empty string is prepared to the empty string.
PrepareInputIdempotent ==
    /\ norm_pc = "twice" => norm_twice = norm_once
    /\ (norm_pc \in {"once", "twice"} /\ norm_in = <<>>) => norm_once = <<>>

\* e with acute, dash, A became "e a" and stayed so
PrepareInputIdempotentWitness ==
    /\ norm_pc = "twice"
    /\ norm_in = <<"U+00E9", "-", "A">>
    /\ norm_once = <<"e", " ", "a">>
    /\ norm_twice = <<"e", " ", "a">>

\* a letter, one character, a letter
LetterCharLetter(s, cs) ==
    Len(s) = 3 /\ s[1] \in {"a", "A"} /\ s[3] \in {"a", "A"} /\ s[2] \in cs

\* C25 as stated: every special character and every apostrophe is replaced by a
\* space, so a word with an apostrophe inside comes out as two tokens, "don t"
ApostropheSplitsWord ==
    norm_pc \in {"once", "twice"} =>
        /\ norm_in \in DontWords => norm_once = <<"d", "o", "n", " ", "t">>
        /\ LetterCharLetter(norm_in, SpecialChars \cup Apostrophes)
               => norm_once = <<"a", " ", "a">>

\* C25: every special character is replaced by a space and every apostrophe is
\* deleted, so a word with an apostrophe inside stays one token, "dont", and the key
\* holds no special character and no apostrophe
ApostropheJoinsWord ==
    norm_pc \in {"once", "twice"} =>
        /\ norm_in \in DontWords => norm_once = <<"d", "o", "n", "t">>
        /\ LetterCharLetter(norm_in, SpecialChars) => norm_once = <<"a", " ", "a">>
        /\ LetterCharLetter(norm_in, Apostrophes) => norm_once = <<"a", "a">>
        /\ \A k \in 1..Len(norm_once) : norm_once[k] \notin SpecialChars \cup Apostrophes

\* the word written with the right single quotation mark was prepared
ApostropheJoinsWordWitness ==
    /\ norm_pc = "once"
    /\ norm_in = <<"D", "o", "n", "U+2019", "t">>
    /\ norm_once = <<"d", "o", "n", "t">>

(***************************************************************************)
(* Properties of the scan commit, under SpecStore.                         *)
(***************************************************************************)
\* s holds "[au:", any white space, "instrumental]", letters of either case
HasInstrumentalTagAnyCase(s) ==
    LET t    == Lower(s)
        head == <<"[", "a", "u", ":">>
        tail == <<"i", "n", "s", "t", "r", "u", "m", "e", "n", "t", "a", "l", "]">>
    IN  \E i \in 1..Len(t) :
            /\ StartsWith(Drop(t, i - 1), head)
            /\ StartsWith(Drop(t, i + 3 + WhitespaceRun(t, i + 4)), tail)

\* C15: a scan-committed track gets instrumental = true exactly when its
\* synced lyrics match "[au:" white space "instrumental]" compared without
\* regard to case, and false otherwise.
ScanFlagsInstrumentalAnyCase ==
    [][dblast'.op = "add_track" =>
         LET r == tracks'[Len(tracks')]
         IN  r.instrumental =
               (r.lrc_lyrics # NULL /\ HasInstrumentalTagAnyCase(r.lrc_lyrics))
    ]_vars

(***************************************************************************)
(* Properties of the schema migrations, under SpecMigrate.                 *)
(***************************************************************************)
\* the steps from the one after n up to CURRENT_DB_VERSION, ascending
StepsAfter(n) == [k \in 1..(CURRENT_DB_VERSION - n) |-> n + k]

\* C16: opening a store of version N in 0..CURRENT_DB_VERSION-1 applies exactly the
\* steps N+1..CURRENT_DB_VERSION, once each and in ascending order, and leaves the
\* version at CURRENT_DB_VERSION; opening a store of version N >= CURRENT_DB_VERSION
\* applies no step and changes nothing, so a second open changes nothing
MigrationOrdering ==
    [][dblast'.op = "open" =>
        /\ user_version \in 0..(CURRENT_DB_VERSION - 1) =>
               /\ applied' = applied \o StepsAfter(user_version)
               /\ user_version' = CURRENT_DB_VERSION
        /\ user_version >= CURRENT_DB_VERSION =>
               UNCHANGED <<applied, user_version, tracks, artists, albums,
                           directories, library_init>>
        /\ (opens >= 1 /\ dblast.op = "open") =>
               UNCHANGED <<applied, user_version, tracks, artists, albums,
                           directories, library_init>>]_vars

\* a store of version 3 was opened twice: steps 4, 5, 6, 7 ran, once
MigrationOrderingWitness ==
    /\ opens = 2 /\ dblast.op = "open" /\ applied = <<4, 5, 6, 7>>
    /\ user_version = CURRENT_DB_VERSION /\ schema = 1..CURRENT_DB_VERSION

\* C17: an upgrade from a version N <= 4 leaves tracks, albums and artists empty and
\* the library init flag reset; an open of a version N >= 5 leaves every track,
\* album, artist and directory row as it was
OnlyStepFiveDestroys ==
    [][dblast'.op = "open" =>
        /\ user_version <= 4 =>
               tracks' = <<>> /\ albums' = <<>> /\ artists' = <<>> /\ library_init' = FALSE
        /\ user_version >= 5 => UNCHANGED <<tracks, albums, artists, directories>>]_vars

\* a store of version 4 that held tracks and had its init flag set was opened
OnlyStepFiveDestroysWitness ==
    /\ opens = 1
    /\ applied = <<5, 6, 7>>
    /\ dblast.op = "open" /\ dblast.ids # {}
    /\ tracks = <<>>

(***************************************************************************)
(* Properties of the bulk updates, under SpecStore.                        *)
(***************************************************************************)
\* C18: a bulk mark or unmark that raises leaves the tracks table as it was before
\* the call; one that returns has written every row whose id it was given
BulkAllOrNothing ==
    [][/\ dblast'.op \in {"mark_raised", "unmark_raised"} => tracks' = tracks
       /\ dblast'.op = "mark" =>
              \A k \in 1..Len(tracks) :
                  tracks[k].id \in dblast'.ids => tracks'[k] = MarkRow(tracks[k])
       /\ dblast'.op = "unmark" =>
              \A k \in 1..Len(tracks) :
                  tracks[k].id \in dblast'.ids => tracks'[k] = UnmarkRow(tracks[k])]_vars

\* a bulk mark of two stored tracks raised after its first statement had run, and
\* neither row is marked
BulkAllOrNothingWitness ==
    /\ dblast.op = "mark_raised"
    /\ dblast.failed_at = 2
    /\ Cardinality(dblast.ids) = 2
    /\ Len(tracks) = 2
    /\ \A k \in 1..Len(tracks) : tracks[k].id \in dblast.ids /\ ~tracks[k].instrumental

(***************************************************************************)
(* Properties of a rescan, under SpecScan.                                 *)
(***************************************************************************)
\* the records extraction returned for the entries of the walk from the k-th on, in
\* walk order
ExtractedFrom(k) ==
    LET Returned(i) == new_fs_track_from_path(paths[i], fs[i]).result = "track"
        idx == SelectSeq([i \in 1..(Len(fs) - k + 1) |-> i + k - 1], Returned)
    IN  [j \in 1..Len(idx) |-> new_fs_track_from_path(paths[idx[j]], fs[idx[j]]).track]

\* C19: when a scan is Done the tracks table holds exactly one row per path whose
\* extraction returned a record in this scan, with the lyrics extraction returned,
\* and the artists and albums are those of these records alone
RescanReplacesLibrary ==
    scan_pc = "done" =>
        LET ex == ExtractedFrom(1)
            ps == {ex[k].file_path : k \in 1..Len(ex)}
        IN  /\ {tracks[j].file_path : j \in 1..Len(tracks)} = ps
            /\ \A p \in ps : Cardinality({j \in 1..Len(tracks) : tracks[j].file_path = p}) = 1
            /\ \A j \in 1..Len(tracks) : \E k \in 1..Len(ex) :
                   /\ tracks[j].file_path = ex[k].file_path
                   /\ tracks[j].txt_lyrics = ex[k].txt_lyrics
                   /\ tracks[j].lrc_lyrics = ex[k].lrc_lyrics
            /\ {artists[j].name : j \in 1..Len(artists)} = {ex[k].artist : k \in 1..Len(ex)}
            /\ {<<albums[j].name, albums[j].album_artist_name>> : j \in 1..Len(albums)}
                   = {<<ex[k].album, ex[k].album_artist>> : k \in 1..Len(ex)}

(***************************************************************************)
(* Properties of a scan run's events, under SpecScanFair.                  *)
(***************************************************************************)
\* C20: a scan run ends in exactly one terminal event.  The finished signal is
\* emitted at most once per run, and exactly once when the run has ended: with
\* ok = TRUE after every path was processed and every extracted record committed,
\* or with ok = FALSE and a reason; after it nothing is committed or reported until
\* another run starts; and a run that is extracting ends
ScanEndsInOneTerminalEvent ==
    /\ [](/\ Len(finished) <= 1
          /\ scan_pc \in {"done", "failed"} <=> Len(finished) = 1
          /\ scan_pc = "done" =>
                 /\ finished[1].ok
                 /\ scan_i > total /\ scanned = total
                 /\ Len(tracks) = Len(ExtractedFrom(1))
          /\ scan_pc = "failed" => ~finished[1].ok /\ finished[1].message # "")
    /\ [][finished # <<>> /\ ~RefreshLibrary =>
              UNCHANGED <<tracks, artists, albums, progress, finished>>]_vars
    /\ (scan_pc = "extracting" ~> scan_pc \in {"done", "failed"})

\* a run over more files than one batch ended Done after its batches were committed
ScanEndsInOneTerminalEventWitness ==
    /\ scan_pc = "done"
    /\ Len(finished) = 1 /\ finished[1].ok
    /\ Len(tracks) > BatchSize
    /\ Len(progress) >= 2

(***************************************************************************)
(* Properties of the scan trigger, under SpecScan.                         *)
(***************************************************************************)
\* C21: at most one scanner is in flight, and from the start of a scanner until its
\* finished signal has been handled the refresh button is disabled
OneScanAtATime ==
    /\ in_flight <= 1
    /\ btn_refresh => in_flight = 0
    /\ (scan_pc \in {"started", "extracting"} \/ handled < Len(finished)) => ~btn_refresh

\* a scanner emitted finished and _scan_finished has not run yet: the button is
\* still disabled
OneScanAtATimeWitness ==
    /\ scan_pc = "done"
    /\ Len(finished) = 1 /\ handled = 0
    /\ in_flight = 1
    /\ ~btn_refresh

(***************************************************************************)
(* Properties of the artists and albums tables, under SpecScan.            *)
(***************************************************************************)
\* C22: no two artist rows have the same name, no two album rows the same
\* (name, album_artist_name) pair, and after the library was cleared every track row
\* references the artist row of its record's artist and the album row of its
\* record's (album, album_artist)
ArtistsAlbumsCreatedOnce ==
    /\ \A i, j \in 1..Len(artists) : artists[i].name = artists[j].name => i = j
    /\ \A i, j \in 1..Len(albums) :
           (albums[i].name = albums[j].name
               /\ albums[i].album_artist_name = albums[j].album_artist_name) => i = j
    /\ scan_pc \in {"extracting", "done"} =>
           LET ex == ExtractedFrom(1)
           IN  \A k \in 1..Len(tracks) :
                   /\ \E a \in 1..Len(artists) :
                          artists[a].id = tracks[k].artist_id /\ artists[a].name = ex[k].artist
                   /\ \E b \in 1..Len(albums) :
                          /\ albums[b].id = tracks[k].album_id
                          /\ albums[b].name = ex[k].album
                          /\ albums[b].album_artist_name = ex[k].album_artist

\* a scan committed four tracks of two artists and three albums
ArtistsAlbumsCreatedOnceWitness ==
    /\ scan_pc = "done"
    /\ Len(tracks) = 4
    /\ Len(artists) = 2
    /\ Len(albums) = 3

(***************************************************************************)
(* Properties of the lyrics mutators, under SpecStore.                     *)
(***************************************************************************)
LyricsArgs == {NULL, <<>>, T_blank, T_padded, T_la, L_la}

\* what "(s or \"\").strip() or None" of a text leaves in a column
StoredAs(s, v) ==
    IF s = NULL \/ Strip(s) = <<>> THEN v = NULL ELSE v = Strip(s) /\ v # <<>>

\* T2 is T but for the lyrics columns and the flag of the row whose id is track_id
OnlyRowChanged(T, T2, track_id) ==
    /\ Len(T2) = Len(T)
    /\ \A k \in 1..Len(T) :
           IF T[k].id # track_id THEN T2[k] = T[k]
           ELSE T2[k] = [T[k] EXCEPT !.txt_lyrics = T2[k].txt_lyrics,
                                     !.lrc_lyrics = T2[k].lrc_lyrics,
                                     !.instrumental = T2[k].instrumental]

RowOf(T, track_id) == {T[k] : k \in {j \in 1..Len(T) : T[j].id = track_id}}

\* C23: on every reachable store and for every id and text, the synced update leaves
\* instrumental false, the plain-only update leaves lrc_lyrics NULL and instrumental
\* false, the clearing update leaves both lyrics NULL and instrumental false, a text
\* that is blank after trimming is stored as NULL, and no row but the one with the
\* given id is changed
LyricsUpdatesFrame ==
    \A track_id \in Ids \cup {MaxTracks + 1} :
        /\ \A sy \in LyricsArgs, pl \in LyricsArgs :
               LET T2 == update_track_synced_lyrics(tracks, track_id, sy, pl)
               IN  /\ OnlyRowChanged(tracks, T2, track_id)
                   /\ \A r \in RowOf(T2, track_id) :
                          /\ ~r.instrumental
                          /\ StoredAs(sy, r.lrc_lyrics)
                          /\ StoredAs(pl, r.txt_lyrics)
        /\ \A pl \in LyricsArgs :
               LET T2 == update_track_plain_lyrics(tracks, track_id, pl)
               IN  /\ OnlyRowChanged(tracks, T2, track_id)
                   /\ \A r \in RowOf(T2, track_id) :
                          /\ ~r.instrumental
                          /\ r.lrc_lyrics = NULL
                          /\ StoredAs(pl, r.txt_lyrics)
        /\ LET T2 == update_track_null_lyrics(tracks, track_id)
           IN  /\ OnlyRowChanged(tracks, T2, track_id)
               /\ \A r \in RowOf(T2, track_id) :
                      ~r.instrumental /\ r.lrc_lyrics = NULL /\ r.txt_lyrics = NULL

\* a save of plain text alone was stored on track 1, whose synced lyrics it cleared,
\* while track 2 kept the sentinel and the flag of an instrumental track
LyricsUpdatesFrameWitness ==
    /\ dblast.op = "save" /\ dblast.ids = {1}
    /\ Len(tracks) = 2
    /\ tracks[1].txt_lyrics = T_la /\ tracks[1].lrc_lyrics = NULL
    /\ ~tracks[1].instrumental
    /\ tracks[2].instrumental /\ tracks[2].lrc_lyrics = Sentinel

(***************************************************************************)
(* Properties of the lyrics extraction, under SpecFn.                      *)
(***************************************************************************)
\* the sidecar content when the file exists and is not blank, else the embedded
\* field when it is not blank, else absent
SidecarElseEmbedded(sidecar, embedded) ==
    IF sidecar # NULL /\ Strip(sidecar) # <<>> THEN Strip(sidecar)
    ELSE IF embedded # NULL /\ Strip(embedded) # <<>> THEN Strip(embedded)
    ELSE NULL

\* C24: the extracted plain lyrics are the .txt sidecar when it exists and is not
\* blank after trimming, else the embedded plain lyrics, else absent; the extracted
\* synced lyrics are chosen likewise from the .lrc sidecar and the embedded synced
\* field; and a file that differs only in the sources of the other field has the
\* same value extracted for this field
LyricsPrecedence ==
    fn_pc = "extracted" =>
        LET f == fn_in.arg
            t == fn_out.track
        IN  /\ t.txt_lyrics = SidecarElseEmbedded(f.txt_sidecar, f.txt_embedded)
            /\ t.lrc_lyrics = SidecarElseEmbedded(f.lrc_sidecar, f.lrc_embedded)
            /\ \A g \in ExtractFiles :
                   /\ (g.ext = f.ext /\ g.txt_sidecar = f.txt_sidecar
                           /\ g.txt_embedded = f.txt_embedded)
                       => new_fs_track_from_path(1, g).track.txt_lyrics = t.txt_lyrics
                   /\ (g.ext = f.ext /\ g.lrc_sidecar = f.lrc_sidecar
                           /\ g.lrc_embedded = f.lrc_embedded)
                       => new_fs_track_from_path(1, g).track.lrc_lyrics = t.lrc_lyrics

(***************************************************************************)
(* Properties of strip_timestamps and parse, under SpecFn.                 *)
(***************************************************************************)
\* what is left of a line of LrcLines once its leading bracket groups are removed
LineWithoutGroups(line) ==
    IF line = Tag_1 \o <<"a">> THEN <<"a">>
    ELSE IF line = Tag_2 \o Tag_1 \o <<"b">> THEN <<"b">>
    ELSE IF line = <<"[", "a", "r", ":", "x", "]">> \o Tag_1 \o <<"d">> THEN <<"d">>
    ELSE IF line = <<"c">> THEN <<"c">>
    ELSE <<>>

NoEmptyLine(text) == \A k \in 1..Len(SplitLines(text)) : SplitLines(text)[k] # <<>>

\* the lines of ls that are more than bracket groups, without their groups
LinesLeft(ls) ==
    SelectSeq([k \in 1..Len(ls) |-> LineWithoutGroups(ls[k])], LAMBDA l : l # <<>>)

\* C26: the result of strip_timestamps has no empty line, and it is the lines of the
\* text without their leading bracket groups, a line of bracket groups alone
\* contributing nothing; in both copies of the function
StripLeavesNoEmptyLine ==
    fn_pc = "stripped" =>
        /\ NoEmptyLine(fn_out.view)
        /\ fn_out.view = JoinLines(LinesLeft(fn_in.lines))
        /\ NoEmptyLine(fn_out.embed)
        /\ fn_out.embed = JoinLines(LinesLeft(fn_in.lines))

\* the (time, text) pairs a line of LrcLines stands for, tag by tag: none for the
\* metadata header, for the line of one tag alone and for the lines without tag
TaggedPairs(line) ==
    IF line = Tag_1 \o <<"a">> THEN <<[ms |-> 1000, text |-> <<"a">>]>>
    ELSE IF line = Tag_2 \o Tag_1 \o <<"b">>
    THEN <<[ms |-> 2000, text |-> <<"b">>], [ms |-> 1000, text |-> <<"b">>]>>
    ELSE IF line = Tag_1 \o <<"[", "x", "]">>
    THEN <<[ms |-> 1000, text |-> <<"[", "x", "]">>]>>
    ELSE <<>>

RECURSIVE AllTaggedPairs(_)
AllTaggedPairs(ls) ==
    IF ls = <<>> THEN <<>> ELSE TaggedPairs(Head(ls)) \o AllTaggedPairs(Tail(ls))

AtTime(ps, t) == SelectSeq(ps, LAMBDA p : p.ms = t)

\* C27: the parsed pairs are in ascending order of time; those of one time are in the
\* order of their lines in the text (and of their tags in a line); a line of k tags
\* gives k pairs of that line's text; a metadata header and a line without text
\* after its tags give none
ParseSortedStable ==
    fn_pc = "parsed" =>
        LET P == fn_out.pairs
            E == AllTaggedPairs(fn_in.lines)
        IN  /\ \A i, j \in 1..Len(P) : i < j => P[i].ms <= P[j].ms
            /\ Len(P) = Len(E)
            /\ \A t \in {1000, 2000} : AtTime(P, t) = AtTime(E, t)

\* the line of two tags came first: its second pair, then the pairs of the two
\* later lines of the same time, then its first pair
ParseSortedStableWitness ==
    /\ fn_pc = "parsed"
    /\ fn_in.kind = "lrc"
    /\ fn_in.lines = <<Tag_2 \o Tag_1 \o <<"b">>, Tag_1 \o <<"a">>, Tag_1 \o <<"[", "x", "]">>>>
    /\ fn_out.pairs = <<[ms |-> 1000, text |-> <<"b">>], [ms |-> 1000, text |-> <<"a">>],
                        [ms |-> 1000, text |-> <<"[", "x", "]">>],
                        [ms |-> 2000, text |-> <<"b">>]>>

(***************************************************************************)
(* Properties of the progress reports of a scan, under SpecScan.           *)
(***************************************************************************)
\* C28: every report of a run carries the number of walked paths as its total and a
\* scanned count between 0 and that total, the scanned counts never decrease from
\* one report to the next, the report that follows a commit of a batch of BatchSize
\* records in the loop carries the count of paths handled so far, and at Done the
\* last report has scanned = total
ProgressMonotoneBounded ==
    /\ [](\A k \in 1..Len(progress) :
              /\ progress[k].total = Len(paths)
              /\ progress[k].scanned \in 0..progress[k].total
              /\ k < Len(progress) => progress[k].scanned <= progress[k + 1].scanned)
    /\ [](scan_pc = "done" =>
              progress # <<>> /\ progress[Len(progress)].scanned = Len(paths))
    /\ [][(scan_pc = "extracting" /\ Len(tracks') = Len(tracks) + BatchSize) =>
              /\ Len(progress') > Len(progress)
              /\ progress'[Len(progress) + 1] = [scanned |-> scanned', total |-> Len(paths)]]_vars

\* a run over 201 files ended Done: a report after each of the two full batches, the
\* periodic report at 200 and the last report
ProgressMonotoneBoundedWitness ==
    /\ scan_pc = "done"
    /\ Len(paths) = 2 * BatchSize + 1
    /\ Len(tracks) = 2 * BatchSize + 1
    /\ progress = <<[scanned |-> 100, total |-> 201], [scanned |-> 200, total |-> 201],
                    [scanned |-> 200, total |-> 201], [scanned |-> 201, total |-> 201]>>

(***************************************************************************)
(* Properties of the commit order of a scan, under SpecPool.               *)
(***************************************************************************)
WalkIndex(path) == CHOOSE k \in 1..Len(paths) : paths[k] = path

\* C29: the rows of tracks are in the order of the walk: of two extracted paths the
\* one the walk found first has its row inserted first, whatever the order in which
\* the extractions completed
CommitInWalkOrder ==
    \A i, j \in 1..Len(tracks) :
        i < j => WalkIndex(tracks[i].file_path) < WalkIndex(tracks[j].file_path)

(***************************************************************************)
(* Properties of the playback highlight, under SpecEdit.                   *)
(***************************************************************************)
Ascending(ts) == \A i, j \in 1..Len(ts) : i < j => ts[i] <= ts[j]

\* the index, counted from 0, of the last row whose time is at most ms; 0 when
\* there is none
RowAt(ts, ms) ==
    LET upto == {i \in 1..Len(ts) : ts[i] <= ms}
    IN  IF upto = {} THEN 0 ELSE (CHOOSE i \in upto : \A j \in upto : j <= i) - 1

\* C30: in synced mode over a non-empty ascending time index, a position event at
\* ms leaves the current index at the last row whose time is at most ms (row 0 when
\* ms is before every time), changes nothing when that is the index of the call
\* before, makes that row current otherwise, and after a position event at a
\* smaller or equal ms the index does not decrease
PositionSelectsRow ==
    [][(last'.op = "position" /\ mode = "synced" /\ times # <<>> /\ Ascending(times)) =>
          LET ms  == position'[1]
              idx == RowAt(times, ms)
          IN  /\ current_index' = idx
              /\ UNCHANGED <<rows, times, dirty, mode, edit_enabled,
                             last_loaded_lrc, last_loaded_txt>>
              /\ cur' = IF idx = current_index THEN cur ELSE idx + 1
              /\ (last.op = "position" /\ position # <<>> /\ position[1] <= ms)
                     => current_index' >= current_index]_vars

\* two rows of one time, and a position event at or after it made the second of
\* them current
PositionSelectsRowWitness ==
    /\ last.op = "position"
    /\ mode = "synced"
    /\ Ascending(times)
    /\ \E i \in 1..(Len(times) - 1) :
           /\ times[i] = times[i + 1]
           /\ times[i + 1] <= position[1]
           /\ i + 1 < Len(times) => times[i + 2] > position[1]
           /\ current_index = i
           /\ cur = i + 1

(***************************************************************************)
(* Save, revert and the time index of the editor.                          *)
(***************************************************************************)
\* the line "[mm:ss.cc]text" of a row
RowLine(r) == <<"[">> \o ms_to_tag(r.ms) \o <<"]">> \o r.text

\* the lines of the rows with non-empty text, in row order
SavedLines(rs) ==
    LET kept == SelectSeq(rs, LAMBDA r : r.text # <<>>)
    IN  [k \in 1..Len(kept) |-> RowLine(kept[k])]

TimesMirrorRows ==
    /\ Len(times) = Len(rows)
    /\ \A k \in 1..Len(rows) : times[k] = rows[k].ms

\* a rejected time edit on rows that an earlier edit left out of chronological order
TimesMirrorRowsWitness ==
    /\ last.op = "edit_time"
    /\ last.s = G_bad
    /\ mode = "synced"
    /\ \E k \in 1..(Len(rows) - 1) : rows[k].ms > rows[k + 1].ms
    /\ Len(times) = Len(rows)
    /\ \A k \in 1..Len(rows) : times[k] = rows[k].ms

\* C33: a text edit changes only the text of the edited row: its stored time and
\* the times and texts of all other rows stay as they were, for every stored time,
\* also one that is not a multiple of 10 ms
TextEditChangesOnlyText ==
    [][last'.op = "edit_text" =>
          /\ Len(rows') = Len(rows)
          /\ \A k \in 1..Len(rows) :
                /\ rows'[k].ms = rows[k].ms
                /\ rows'[k].text = IF k = last'.i THEN last'.s ELSE rows[k].text]_vars

\* C39: Revert restores what was loaded: a revert that directly follows a load or
\* a save leaves the rows with exactly the times and texts they had (the state at
\* that load or save), and every revert clears the dirty flag
RevertRestoresLoaded ==
    [][last'.op = "revert" =>
          /\ dirty' = FALSE
          /\ last.op \in {"load", "save"} =>
                /\ Len(rows') = Len(rows)
                /\ \A k \in 1..Len(rows) :
                      /\ rows'[k].ms = rows[k].ms
                      /\ rows'[k].text = rows[k].text]_vars

\* the texts mm:ss and mm:ss.f with one to three fraction digits
DottedTags ==
    {mm \o <<":">> \o ss : mm \in StampMinutes, ss \in StampSeconds}
    \cup {mm \o <<":">> \o ss \o <<".">> \o frac :
            mm \in StampMinutes, ss \in StampSeconds, frac \in StampFractions}

\* C40: the two timestamp parsers agree: for every tag text mm:ss or mm:ss.f with
\* one to three fraction digits, the value the time cell parser returns is the
\* time the LRC parser gives a line tagged with that text
ParsersAgree ==
    (stamp_pc = "parsed" /\ stamp_tag \in DottedTags) =>
        /\ stamp_out.ok
        /\ parse_lrc(<<"[">> \o stamp_tag \o <<"]", "x">>)
              = <<[ms |-> stamp_out.v, text |-> <<"x">>]>>

\* C36: the stored schema version never runs ahead of the schema: in every
\* reachable state, also after a migration step raised midway, a stored version
\* >= k implies that the schema changes of step k are all on the file, so that an
\* interrupted step runs again at the next start
VersionNeverAhead ==
    \A k \in 1..CURRENT_DB_VERSION : user_version >= k => k \in schema

\* C38: each audio file yields at most one track row per scan: once a scan is
\* Done no two track rows have the same file_path, for every list of music
\* folders, also one with a folder inside another
OneRowPerFile ==
    scan_pc = "done" =>
        \A i, j \in 1..Len(tracks) : tracks[i].file_path = tracks[j].file_path => i = j

\* C37: the track listing filter agrees with the displayed lyrics state: in every
\* reachable store state and for every combination of the four flags, with no
\* search text and no album or artist filter, a track is returned iff the flag of
\* its displayed state (instrumental, synced, plain or none) is set
FilterAgreesWithState ==
    \A synced, plain, instrumental, none \in BOOLEAN :
        \A k \in 1..Len(tracks) :
            (tracks[k].id \in get_track_rows(tracks, synced, plain, instrumental, none))
                <=> CASE lyrics_state(tracks[k]) = "instrumental" -> instrumental
                      [] lyrics_state(tracks[k]) = "synced" -> synced
                      [] lyrics_state(tracks[k]) = "plain" -> plain
                      [] OTHER -> none

(***************************************************************************)
(* Properties of the main window, under SpecWindow.                        *)
(***************************************************************************)
\* C34: saved lyrics are written to the track whose lyrics the editor displays:
\* after any interleaving of play, download finished and save events, a save
\* updates the store row of the track the editor was last loaded from, and leaves
\* every other row as it was
SaveWritesShownTrack ==
    [][(window'.ev = "save" /\ window'.wops = window.wops + 1) =>
          /\ Len(tracks') = Len(tracks)
          /\ dblast'.ids = {window.shown_track}
          /\ \A k \in 1..Len(tracks) :
                tracks[k].id # window.shown_track => tracks'[k] = tracks[k]]_vars

\* C35: a lyrics download writes only to the track it was started for: the row the
\* worker writes its lyrics to describes the audio file whose metadata the worker
\* read for the lookup, also when a library rescan deleted and recreated the rows
\* between the read and the write
DownloadWritesReadTrack ==
    [][(window.worker.pc = "querying" /\ window'.worker.pc = "emitted") =>
          \A k \in 1..Len(tracks) :
              tracks'[k] # tracks[k] => tracks[k].file_path = window.worker.path]_vars

====
